---- MODULE Spec2Model ----
(***************************************************************************)
(* Model of the QRE privacy toolkit's cryptographic core:                  *)
(*   - keychain.rs       the two-slot keychain store                       *)
(*   - commands/vault.rs the session commands that drive the keychain      *)
(*   - crypto_stream.rs  the streaming (V5) container codec                *)
(*   - crypto.rs         the legacy whole-file codec                       *)
(*                                                                         *)
(* Cryptography is symbolic: an AEAD ciphertext is a record of the key,    *)
(* the nonce and the plaintext it was made from, and it opens only under   *)
(* that key and nonce and only while its tag is intact.  A KDF output or a *)
(* hash is the record of its inputs.                                       *)
(***************************************************************************)
EXTENDS Integers, Sequences, FiniteSets, TLC

VARIABLES
    file,       \* keychain.json at the resolved path: NoFile or a KeychainStore
    session,    \* SessionState.master_key: NoKey (None) or a Master Key
    user,       \* what the user holds: the password and recovery code last given to them
    last,       \* the last command: its name, arguments and result
    inp,        \* encrypt_file_stream's arguments: the input file, keys, level, seed
    enc,        \* encrypt_file_stream's locals: position in the function, chunk_index, keys
    disk,       \* the container file at output_path
    tamper,     \* what was done to the container file after it was written
    dec,        \* decrypt_file_stream's arguments and locals
    dir,        \* output_dir: the names in it and the file decrypt_file_stream creates
    leg,        \* the legacy codec: its container and decrypt_file_with_master_key's locals
    nc,         \* the rolling-nonce computation: base nonce, chunk indices, nonces made
    batch,      \* lock_file: its arguments, loop position and the containers it wrote
    thr,        \* the threads running vault commands: each one's command and locals
    unl,        \* unlock_file: the container it is given and what it did with it
    od          \* the file system around output_dir and the decrypt_file_stream calls
                \* that are creating their output files in it

kvars == <<file, session, user, last>>
cvars == <<inp, enc, disk, tamper, dec, dir, leg>>
xvars == <<nc, batch, thr, unl, od>>
vars == <<file, session, user, last, inp, enc, disk, tamper, dec, dir, leg, nc, batch, thr, unl, od>>

-----------------------------------------------------------------------------
(* Values *)

NoFile == [exists |-> FALSE]
\* Option<MasterKey>::None, and the 32-byte keys OsRng may draw
NoKey == "None"
MasterKeys == {"mk1", "mk2"}
Passwords == {"pw1", "pw2"}
Salts == {"c2FsdDE", "c2FsdDI"}
NonceVals == {1, 2}
VaultIds == {"v1"}
\* OsRng draws for the four u16 groups of a recovery code
CodeDraws == {<<0, 0, 0, 0>>, <<65535, 4660, 43981, 10>>, <<1, 2, 3, 4>>}

NONCE_LEN == 12
MASTER_KEY_LEN == 32

default_kdf_memory == 19456
default_kdf_iterations == 2
default_kdf_parallelism == 1

-----------------------------------------------------------------------------
(* AEAD (AES-256-GCM) *)

AeadFail == [ok |-> FALSE]

\* cipher.encrypt(nonce, plaintext) under `key`
Encrypt(key, nonce, pt) == [k |-> key, n |-> nonce, p |-> pt, tagok |-> TRUE]

\* cipher.decrypt(nonce, ct) under `key`: the plaintext, or an authentication failure
Decrypt(key, nonce, ct) ==
    IF ct.tagok /\ ct.k = key /\ ct.n = nonce
    THEN [ok |-> TRUE, p |-> ct.p]
    ELSE AeadFail

\* A ciphertext with some bits flipped authenticates under no key
Corrupt(ct) == [ct EXCEPT !.tagok = FALSE]

\* A nonce as stored: a byte vector of some length
NonceBytes(v) == [len |-> NONCE_LEN, v |-> v]

\* The 32 bytes of a Master Key as AEAD plaintext
KeyBytes(mk) == [len |-> MASTER_KEY_LEN, v |-> mk]

-----------------------------------------------------------------------------
(* Recovery code formatting: format!("{:04X}", n) joined by "-" after "QRE-" *)

HexDigits == <<"0", "1", "2", "3", "4", "5", "6", "7",
               "8", "9", "A", "B", "C", "D", "E", "F">>

\* Mutant: format!("{:X}", n), which pads nothing
RECURSIVE HexUnpadded(_)
HexUnpadded(n) ==
    IF n < 16 THEN HexDigits[n + 1] ELSE HexUnpadded(n \div 16) \o HexDigits[(n % 16) + 1]

\* format!("{:04X}", n) of a u16
Hex4(n) ==
    HexDigits[((n \div 4096) % 16) + 1] \o HexDigits[((n \div 256) % 16) + 1]
        \o HexDigits[((n \div 16) % 16) + 1] \o HexDigits[(n % 16) + 1]

RecoveryCode(ns) ==
    "QRE-" \o Hex4(ns[1]) \o "-" \o Hex4(ns[2]) \o "-" \o Hex4(ns[3]) \o "-" \o Hex4(ns[4])

Codes == {RecoveryCode(ns) : ns \in CodeDraws}

-----------------------------------------------------------------------------
(* keychain.rs *)

KekErr(e) == [ok |-> FALSE, err |-> e, key |-> <<>>]

\* Argon2id: Params::new rejects bad costs, SaltString::from_b64 a bad salt;
\* otherwise the key is a deterministic function of all five inputs.
derive_kek(secret, salt_str, mem, iter, par) ==
    IF ~(par >= 1 /\ iter >= 1 /\ mem >= 8 * par)
    THEN KekErr("Invalid KDF parameters")
    ELSE IF salt_str \notin Salts
    THEN KekErr("Invalid salt in keychain")
    ELSE [ok |-> TRUE, err |-> "", key |-> <<secret, salt_str, mem, iter, par>>]

\* Result of a keychain operation: error text (or "Ok"), the key or code it
\* returns, and the store file it leaves behind.
Res(r, k, c, f) == [res |-> r, key |-> k, code |-> c, file |-> f]

\* Mutant: an init that writes over the store it finds
init_keychain_overwrite(f, password, mk, pass_salt, pass_nonce, ns, rec_salt, rec_nonce, vid) ==
    LET mem == default_kdf_memory
        iter == default_kdf_iterations
        par == default_kdf_parallelism
        pass_kek == derive_kek(password, pass_salt, mem, iter, par)
        recovery_code == RecoveryCode(ns)
        rec_kek == derive_kek(recovery_code, rec_salt, mem, iter, par)
    IN  IF ~pass_kek.ok THEN Res(pass_kek.err, NoKey, "", f)
        ELSE IF ~rec_kek.ok THEN Res(rec_kek.err, NoKey, "", f)
        ELSE Res("Ok", mk, recovery_code,
                 [exists |-> TRUE,
                  vault_id |-> vid,
                  kdf_memory |-> mem,
                  kdf_iterations |-> iter,
                  kdf_parallelism |-> par,
                  password_salt |-> pass_salt,
                  password_nonce |-> NonceBytes(pass_nonce),
                  encrypted_master_key_pass |->
                      Encrypt(pass_kek.key, NonceBytes(pass_nonce), KeyBytes(mk)),
                  recovery_salt |-> rec_salt,
                  recovery_nonce |-> NonceBytes(rec_nonce),
                  encrypted_master_key_recovery |->
                      Encrypt(rec_kek.key, NonceBytes(rec_nonce), KeyBytes(mk))])

init_keychain(f, password, mk, pass_salt, pass_nonce, ns, rec_salt, rec_nonce, vid) ==
    IF f.exists THEN Res("Keychain already exists.", NoKey, "", f)
    ELSE
    LET mem == default_kdf_memory
        iter == default_kdf_iterations
        par == default_kdf_parallelism
        pass_kek == derive_kek(password, pass_salt, mem, iter, par)
        recovery_code == RecoveryCode(ns)
        rec_kek == derive_kek(recovery_code, rec_salt, mem, iter, par)
    IN  IF ~pass_kek.ok THEN Res(pass_kek.err, NoKey, "", f)
        ELSE IF ~rec_kek.ok THEN Res(rec_kek.err, NoKey, "", f)
        ELSE Res("Ok", mk, recovery_code,
                 [exists |-> TRUE,
                  vault_id |-> vid,
                  kdf_memory |-> mem,
                  kdf_iterations |-> iter,
                  kdf_parallelism |-> par,
                  password_salt |-> pass_salt,
                  password_nonce |-> NonceBytes(pass_nonce),
                  encrypted_master_key_pass |->
                      Encrypt(pass_kek.key, NonceBytes(pass_nonce), KeyBytes(mk)),
                  recovery_salt |-> rec_salt,
                  recovery_nonce |-> NonceBytes(rec_nonce),
                  encrypted_master_key_recovery |->
                      Encrypt(rec_kek.key, NonceBytes(rec_nonce), KeyBytes(mk))])

\* Mutant: an unlock that reports a damaged ciphertext apart from a wrong key
unlock_keychain_oracle(f, password) ==
    LET kek == derive_kek(password, f.password_salt, f.kdf_memory,
                          f.kdf_iterations, f.kdf_parallelism)
        mk_bytes == Decrypt(kek.key, f.password_nonce, f.encrypted_master_key_pass)
    IN  IF ~f.exists THEN Res("No keychain found. Please initialize first.", NoKey, "", f)
        ELSE IF ~f.encrypted_master_key_pass.tagok
        THEN Res("Corrupted keychain file", NoKey, "", f)
        ELSE IF ~mk_bytes.ok THEN Res("Incorrect Password", NoKey, "", f)
        ELSE Res("Ok", mk_bytes.p.v, "", f)

unlock_keychain(f, password) ==
    IF ~f.exists THEN Res("No keychain found. Please initialize first.", NoKey, "", f)
    ELSE
    LET kek == derive_kek(password, f.password_salt, f.kdf_memory,
                          f.kdf_iterations, f.kdf_parallelism)
        mk_bytes == Decrypt(kek.key, f.password_nonce, f.encrypted_master_key_pass)
    IN  IF ~kek.ok THEN Res(kek.err, NoKey, "", f)
        ELSE IF f.password_nonce.len # NONCE_LEN THEN Res("PANIC", NoKey, "", f)
        ELSE IF ~mk_bytes.ok THEN Res("Incorrect Password", NoKey, "", f)
        ELSE IF mk_bytes.p.len # MASTER_KEY_LEN
        THEN Res("Keychain is corrupt: invalid master key length", NoKey, "", f)
        ELSE Res("Ok", mk_bytes.p.v, "", f)

\* The re-encryption of the password slot that recover_with_code and
\* change_password share line for line.
WritePasswordSlot(f, master_key, new_password, new_pass_salt, new_pass_nonce) ==
    LET new_pass_kek == derive_kek(new_password, new_pass_salt, f.kdf_memory,
                                   f.kdf_iterations, f.kdf_parallelism)
    IN  IF ~new_pass_kek.ok THEN Res(new_pass_kek.err, NoKey, "", f)
        ELSE Res("Ok", master_key, "",
                 [f EXCEPT !.password_salt = new_pass_salt,
                           !.password_nonce = NonceBytes(new_pass_nonce),
                           !.encrypted_master_key_pass =
                               Encrypt(new_pass_kek.key, NonceBytes(new_pass_nonce),
                                       KeyBytes(master_key))])

\* Mutant: a recovery that stores the new nonce in the recovery slot as well
recover_with_code_both_nonces(f, recovery_code, new_password, new_pass_salt, new_pass_nonce) ==
    LET mk_bytes == Decrypt(derive_kek(recovery_code, f.recovery_salt, f.kdf_memory,
                                       f.kdf_iterations, f.kdf_parallelism).key,
                            f.recovery_nonce, f.encrypted_master_key_recovery)
        w == WritePasswordSlot(f, mk_bytes.p.v, new_password, new_pass_salt, new_pass_nonce)
    IN  IF ~f.exists THEN Res("No such file", NoKey, "", f)
        ELSE IF ~mk_bytes.ok THEN Res("Invalid Recovery Code", NoKey, "", f)
        ELSE [w EXCEPT !.file.recovery_nonce = NonceBytes(new_pass_nonce)]

recover_with_code(f, recovery_code, new_password, new_pass_salt, new_pass_nonce) ==
    IF ~f.exists THEN Res("No such file", NoKey, "", f)
    ELSE
    LET rec_kek == derive_kek(recovery_code, f.recovery_salt, f.kdf_memory,
                              f.kdf_iterations, f.kdf_parallelism)
        mk_bytes == Decrypt(rec_kek.key, f.recovery_nonce, f.encrypted_master_key_recovery)
    IN  IF ~rec_kek.ok THEN Res(rec_kek.err, NoKey, "", f)
        ELSE IF f.recovery_nonce.len # NONCE_LEN THEN Res("PANIC", NoKey, "", f)
        ELSE IF ~mk_bytes.ok THEN Res("Invalid Recovery Code", NoKey, "", f)
        ELSE IF mk_bytes.p.len # MASTER_KEY_LEN
        THEN Res("Keychain is corrupt: invalid master key length", NoKey, "", f)
        ELSE WritePasswordSlot(f, mk_bytes.p.v, new_password, new_pass_salt, new_pass_nonce)

\* Mutant: a reset that never stores the nonce it encrypted under
reset_recovery_code_no_nonce(f, master_key, ns, rec_salt, rec_nonce) ==
    LET rec_kek == derive_kek(RecoveryCode(ns), rec_salt, f.kdf_memory,
                              f.kdf_iterations, f.kdf_parallelism)
    IN  IF ~f.exists THEN Res("No such file", NoKey, "", f)
        ELSE Res("Ok", NoKey, RecoveryCode(ns),
                 [f EXCEPT !.recovery_salt = rec_salt,
                           !.encrypted_master_key_recovery =
                               Encrypt(rec_kek.key, NonceBytes(rec_nonce),
                                       KeyBytes(master_key))])

\* Mutant: a reset that stores the new salt in the password slot
reset_recovery_code_wrong_slot(f, master_key, ns, rec_salt, rec_nonce) ==
    LET rec_kek == derive_kek(RecoveryCode(ns), rec_salt, f.kdf_memory,
                              f.kdf_iterations, f.kdf_parallelism)
    IN  IF ~f.exists THEN Res("No such file", NoKey, "", f)
        ELSE Res("Ok", NoKey, RecoveryCode(ns),
                 [f EXCEPT !.password_salt = rec_salt,
                           !.recovery_nonce = NonceBytes(rec_nonce),
                           !.encrypted_master_key_recovery =
                               Encrypt(rec_kek.key, NonceBytes(rec_nonce),
                                       KeyBytes(master_key))])

reset_recovery_code(f, master_key, ns, rec_salt, rec_nonce) ==
    IF ~f.exists THEN Res("No such file", NoKey, "", f)
    ELSE
    LET recovery_code == RecoveryCode(ns)
        rec_kek == derive_kek(recovery_code, rec_salt, f.kdf_memory,
                              f.kdf_iterations, f.kdf_parallelism)
    IN  IF ~rec_kek.ok THEN Res(rec_kek.err, NoKey, "", f)
        ELSE Res("Ok", NoKey, recovery_code,
                 [f EXCEPT !.recovery_salt = rec_salt,
                           !.recovery_nonce = NonceBytes(rec_nonce),
                           !.encrypted_master_key_recovery =
                               Encrypt(rec_kek.key, NonceBytes(rec_nonce),
                                       KeyBytes(master_key))])

\* Mutant: a password change that derives the key from the salt already stored
change_password_stale_salt(f, master_key, new_password, new_pass_salt, new_pass_nonce) ==
    LET kek == derive_kek(new_password, f.password_salt, f.kdf_memory,
                          f.kdf_iterations, f.kdf_parallelism)
    IN  IF ~f.exists THEN Res("No such file", NoKey, "", f)
        ELSE Res("Ok", NoKey, "",
                 [f EXCEPT !.password_salt = new_pass_salt,
                           !.password_nonce = NonceBytes(new_pass_nonce),
                           !.encrypted_master_key_pass =
                               Encrypt(kek.key, NonceBytes(new_pass_nonce),
                                       KeyBytes(master_key))])

change_password(f, master_key, new_password, new_pass_salt, new_pass_nonce) ==
    IF ~f.exists THEN Res("No such file", NoKey, "", f)
    ELSE [WritePasswordSlot(f, master_key, new_password, new_pass_salt, new_pass_nonce)
             EXCEPT !.key = NoKey]

-----------------------------------------------------------------------------
(* crypto_stream.rs: values *)

\* Sizes are scaled: a chunk is CHUNK_SIZE model bytes instead of 1 MiB
CHUNK_SIZE == 2
MaxLen == 5
Bytes == {0, 1}
CHUNK_SLACK == 4096
AES_NONCE_LEN == 12
FILE_KEY_LEN == 32
CURRENT_VERSION == 5
LEN_PREFIX == 4
TAG_LEN == 16
VALIDATION_MAGIC == "QRE_VALID"

NoKeyfile == "None"
Keyfiles == {"kf1", "kf2"}
\* Option<[u8; 32]>::None
NoSeed == <<"None">>
Levels == {1, 19}

RECURSIVE SeqsUpTo(_)
SeqsUpTo(n) ==
    IF n = 0 THEN {<<>>}
    ELSE LET shorter == SeqsUpTo(n - 1)
         IN  shorter \cup {Append(q, b) : q \in {x \in shorter : Len(x) = n - 1}, b \in Bytes}

\* The input files: a run of 0s then a run of 1s, of every length up to
\* MaxLen, so that runs end before, at and after the chunk boundaries
Plaintexts == {p \in SeqsUpTo(MaxLen) : \A i \in 1..(Len(p) - 1) : p[i] <= p[i + 1]}

\* File names are sequences of characters
Filenames == {<<"a", ".", "t">>, <<"b">>}

Min(a, b) == IF a < b THEN a ELSE b

-----------------------------------------------------------------------------
(* zstd, as the two helpers use it: a framed run-length coding whose runs a
   low level leaves unmerged; the decoder accepts either *)

RECURSIVE Runs(_, _)
Runs(data, merge) ==
    IF Len(data) = 0 THEN <<>>
    ELSE LET rest == Runs(Tail(data), merge)
         IN  IF merge /\ Len(rest) > 0 /\ rest[1][1] = Head(data)
             THEN <<(<<Head(data), rest[1][2] + 1>>)>> \o Tail(rest)
             ELSE <<(<<Head(data), 1>>)>> \o rest

compress_chunk(data, level) == <<(<<"ZSTD", 0>>)>> \o Runs(data, level > 1)

RECURSIVE Expand(_)
Expand(runs) ==
    IF Len(runs) = 0 THEN <<>>
    ELSE [i \in 1..runs[1][2] |-> runs[1][1]] \o Expand(Tail(runs))

\* Mutant: a decoder that stops one run early
decompress_chunk_short(c) ==
    IF Len(c) = 0 \/ c[1] # <<"ZSTD", 0>>
    THEN [ok |-> FALSE, data |-> <<>>]
    ELSE [ok |-> TRUE, data |-> Expand(SubSeq(c, 2, Len(c) - 1))]

decompress_chunk(c) ==
    IF Len(c) = 0 \/ c[1] # <<"ZSTD", 0>>
    THEN [ok |-> FALSE, data |-> <<>>]
    ELSE [ok |-> TRUE, data |-> Expand(Tail(c))]

-----------------------------------------------------------------------------
(* crypto_stream.rs: helpers *)

\* SHA-256 over the Master Key and the keyfile domain tag
derive_wrapping_key(master_key, keyfile_bytes) ==
    IF keyfile_bytes # NoKeyfile
    THEN <<master_key, "KEYFILE_MIX", keyfile_bytes>>
    ELSE <<master_key, "NO_KEYFILE", "">>

RECURSIVE Xor8(_, _)
Xor8(a, b) ==
    IF a = 0 /\ b = 0 THEN 0
    ELSE (((a % 2) + (b % 2)) % 2) + 2 * Xor8(a \div 2, b \div 2)

\* A u64 is four 16-bit limbs, least significant first; U64(n) is the u64 of
\* a counter that has stayed below 2^31
U64(n) == <<n % 65536, n \div 65536, 0, 0>>

\* Mutant: only the low 32 bits of the index reach the nonce
to_le_bytes_u32(ix) ==
    [k \in 1..8 |-> IF k > 4 THEN 0
                    ELSE IF k % 2 = 1 THEN ix[(k + 1) \div 2] % 256
                    ELSE ix[k \div 2] \div 256]

\* chunk_index.to_le_bytes(): eight bytes, least significant first
to_le_bytes(ix) ==
    [k \in 1..8 |-> IF k % 2 = 1 THEN ix[(k + 1) \div 2] % 256 ELSE ix[k \div 2] \div 256]

\* Mutant: the base nonce used as it is for every chunk
ChunkNonce_fixed(base_nonce, chunk_index) == base_nonce

\* The rolling nonce: chunk_nonce_bytes[4 + i] ^= index_bytes[i] for i in 0..8
ChunkNonce(base_nonce, chunk_index) ==
    LET index_bytes == to_le_bytes(chunk_index)
    IN  [j \in 1..AES_NONCE_LEN |->
            IF j <= 4 THEN base_nonce[j]
            ELSE Xor8(base_nonce[j], index_bytes[j - 4])]

\* The generator's four draws, in the order the function makes them
RngOut(fk, vn, kn, bn) ==
    [file_key |-> fk,
     validation_nonce |-> [j \in 1..AES_NONCE_LEN |-> vn],
     key_wrapping_nonce |-> [j \in 1..AES_NONCE_LEN |-> kn],
     base_nonce |-> [j \in 1..AES_NONCE_LEN |-> bn]]

Sha256(bytes) == <<"sha256", bytes>>

\* The extra entropy a caller may supply, and the most files in one batch
EntropyList == <<"e1", "e2">>
MaxBatch == 3

\* The seeds the callers make of it: SHA-256 of the entropy alone, or of the
\* entropy and the little-endian u64 index of a file in the batch
SeedList ==
    [k \in 1..(Len(EntropyList) * (MaxBatch + 1)) |->
        LET e == EntropyList[((k - 1) % Len(EntropyList)) + 1]
            j == (k - 1) \div Len(EntropyList)
        IN  IF j = 0 THEN Sha256(<<e>>) ELSE Sha256(<<e, to_le_bytes(U64(j - 1))>>)]
SeedNo(seed) == CHOOSE k \in 1..Len(SeedList) : SeedList[k] = seed
Seeds == {SeedList[1]}

\* ChaCha20Rng::from_seed(seed): a deterministic stream, and under another
\* seed another stream
ChaCha20Rng(seed) ==
    RngOut(<<"chacha", seed, 0>>, 16 * SeedNo(seed) + 1, 16 * SeedNo(seed) + 2,
           16 * SeedNo(seed) + 3)

\* OsRng
OsRngDraws == {RngOut(<<"os", "r1", 0>>, 3, 3, 0)}

\* One [length][ciphertext] record and the bytes it takes in the file; idx is
\* not in the file: it notes the chunk_index the record was written under
Record(ct, idx) == [len |-> Len(ct.p) + TAG_LEN, ct |-> ct, idx |-> idx]
RecordSize(rec) == LEN_PREFIX + rec.len

RECURSIVE BodySize(_)
BodySize(body) == IF Len(body) = 0 THEN 0 ELSE RecordSize(body[1]) + BodySize(Tail(body))

NoContainer == [exists |-> FALSE]

-----------------------------------------------------------------------------
(* utils.rs: get_unique_path *)

LastDot(name) ==
    IF \E i \in 1..Len(name) : name[i] = "."
    THEN CHOOSE i \in 1..Len(name) :
             name[i] = "." /\ \A j \in (i + 1)..Len(name) : name[j] # "."
    ELSE 0

\* Path::file_stem and Path::extension of a file name
SplitName(name) ==
    LET d == LastDot(name)
    IN  IF name = <<".", ".">>
        THEN [stem |-> <<>>, has_ext |-> FALSE, ext |-> <<>>]
        ELSE IF d <= 1
        THEN [stem |-> name, has_ext |-> FALSE, ext |-> <<>>]
        ELSE [stem |-> SubSeq(name, 1, d - 1), has_ext |-> TRUE,
              ext |-> SubSeq(name, d + 1, Len(name))]

RECURSIVE DecStr(_)
DecStr(n) ==
    IF n < 10 THEN <<HexDigits[n + 1]>>
    ELSE DecStr(n \div 10) \o <<HexDigits[(n % 10) + 1]>>

\* format!("{} ({}){}", file_stem, counter, extension)
NumberedName(name, counter) ==
    LET sp == SplitName(name)
    IN  sp.stem \o <<" ", "(">> \o DecStr(counter) \o <<")">>
            \o (IF sp.has_ext THEN <<".">> \o sp.ext ELSE <<>>)

RECURSIVE UniqueFrom(_, _, _)
UniqueFrom(names, name, counter) ==
    IF NumberedName(name, counter) \notin names
    THEN NumberedName(name, counter)
    ELSE UniqueFrom(names, name, counter + 1)

get_unique_path(names, name) ==
    IF name \notin names THEN name ELSE UniqueFrom(names, name, 1)

-----------------------------------------------------------------------------
(* crypto_stream.rs: encrypt_file_stream *)

LegIdle == [pc |-> "idle", container |-> NoContainer, master_key |-> NoKey,
            keyfile |-> NoKeyfile, sk |-> <<>>, result |-> "",
            payload |-> [filename |-> <<>>, content |-> <<>>]]
EncIdle == [pc |-> "idle", chunk_index |-> 0, processed_bytes |-> 0,
            file_key |-> <<>>, base_nonce |-> <<>>]
DecIdle == [pc |-> "idle", master_key |-> NoKey, keyfile |-> NoKeyfile, file_key |-> <<>>,
            chunk_index |-> 0, off |-> 0, result |-> "", err_chunk |-> -1]
NoOutput == [created |-> FALSE, name |-> <<>>, data |-> <<>>]

CodecIdle ==
    /\ inp = [exists |-> FALSE]
    /\ enc = EncIdle
    /\ disk = NoContainer
    /\ tamper = [kind |-> "none"]
    /\ dec = DecIdle
    /\ dir = [names |-> {}, out |-> NoOutput]
    /\ leg = LegIdle

\* An encryption that draws from the operating system whatever seed it is given
encrypt_begin_os ==
    /\ enc.pc = "idle"
    /\ leg.pc = "idle"
    /\ \E rng \in OsRngDraws :
        LET wrapping_key == derive_wrapping_key(inp.master_key, inp.keyfile)
            header ==
                [validation_nonce |-> rng.validation_nonce,
                 encrypted_validation_tag |->
                     Encrypt(wrapping_key, rng.validation_nonce, VALIDATION_MAGIC),
                 key_wrapping_nonce |-> rng.key_wrapping_nonce,
                 encrypted_file_key |->
                     Encrypt(wrapping_key, rng.key_wrapping_nonce,
                             [len |-> FILE_KEY_LEN, v |-> rng.file_key]),
                 base_nonce |-> rng.base_nonce,
                 original_filename |-> inp.filename,
                 original_hash |-> "None"]
        IN  /\ disk' = [exists |-> TRUE, version |-> CURRENT_VERSION, header |-> header,
                        body |-> <<>>, size |-> 0]
            /\ enc' = [pc |-> "loop", chunk_index |-> 0, processed_bytes |-> 0,
                       file_key |-> rng.file_key, base_nonce |-> rng.base_nonce]
    /\ UNCHANGED <<inp, tamper, dec, dir, leg>>

\* Lines 115-177: open the streams, write the version, draw the File Key and
\* the nonces, build and write the header
encrypt_begin ==
    /\ enc.pc = "idle"
    /\ leg.pc = "idle"
    /\ \E rng \in (IF inp.entropy_seed = NoSeed THEN OsRngDraws
                   ELSE {ChaCha20Rng(inp.entropy_seed)}) :
        LET wrapping_key == derive_wrapping_key(inp.master_key, inp.keyfile)
            header ==
                [validation_nonce |-> rng.validation_nonce,
                 encrypted_validation_tag |->
                     Encrypt(wrapping_key, rng.validation_nonce, VALIDATION_MAGIC),
                 key_wrapping_nonce |-> rng.key_wrapping_nonce,
                 encrypted_file_key |->
                     Encrypt(wrapping_key, rng.key_wrapping_nonce,
                             [len |-> FILE_KEY_LEN, v |-> rng.file_key]),
                 base_nonce |-> rng.base_nonce,
                 original_filename |-> inp.filename,
                 original_hash |-> "None"]
        IN  /\ disk' = [exists |-> TRUE, version |-> CURRENT_VERSION, header |-> header,
                        body |-> <<>>, size |-> 0]
            /\ enc' = [pc |-> "loop", chunk_index |-> 0, processed_bytes |-> 0,
                       file_key |-> rng.file_key, base_nonce |-> rng.base_nonce]
    /\ UNCHANGED <<inp, tamper, dec, dir, leg>>

\* Lines 184-221: one pass of the loop that finds bytes to read.  The input
\* is a regular file: read fills the buffer unless the file ends first.
encrypt_chunk ==
    /\ enc.pc = "loop"
    /\ enc.processed_bytes < Len(inp.data)
    /\ LET bytes_read == Min(CHUNK_SIZE, Len(inp.data) - enc.processed_bytes)
           chunk_data == SubSeq(inp.data, enc.processed_bytes + 1,
                                enc.processed_bytes + bytes_read)
           compressed == compress_chunk(chunk_data, inp.level)
           nonce == ChunkNonce(enc.base_nonce, U64(enc.chunk_index))
           ciphertext == Encrypt(enc.file_key, nonce, compressed)
           rec == Record(ciphertext, enc.chunk_index)
       IN  /\ disk' = [disk EXCEPT !.body = Append(@, rec), !.size = @ + RecordSize(rec)]
           /\ enc' = [enc EXCEPT !.processed_bytes = @ + bytes_read,
                                 !.chunk_index = @ + 1]
    /\ UNCHANGED <<inp, tamper, dec, dir, leg>>

\* Lines 186-189, 224-230: the read that returns 0, then flush and wipe
encrypt_finish ==
    /\ enc.pc = "loop"
    /\ enc.processed_bytes = Len(inp.data)
    /\ enc' = [enc EXCEPT !.pc = "done", !.file_key = <<>>]
    /\ UNCHANGED <<inp, disk, tamper, dec, dir, leg>>

-----------------------------------------------------------------------------
(* commands/vault.rs: the commands, one at a time, each run to completion *)

Cmd(op, pw, code, r) ==
    [op |-> op, pw |-> pw, code |-> code, res |-> r.res, key |-> r.key, out |-> r.code]

\* A command that returns before it calls into the keychain
Early(op, pw, e) == [op |-> op, pw |-> pw, code |-> "", res |-> e, key |-> NoKey, out |-> ""]

NoUser == [password |-> "", recovery_code |-> "", master_key |-> NoKey]

init_vault ==
    \E password \in Passwords, mk \in MasterKeys, ps \in Salts, pn \in NonceVals,
       ns \in CodeDraws, rs \in Salts, rn \in NonceVals, vid \in VaultIds :
        LET r == init_keychain(file, password, mk, ps, pn, ns, rs, rn, vid)
        IN  /\ file' = r.file
            /\ session' = IF r.res = "Ok" THEN r.key ELSE session
            /\ user' = IF r.res = "Ok"
                       THEN [password |-> password, recovery_code |-> r.code,
                             master_key |-> r.key]
                       ELSE user
            /\ last' = Cmd("init_vault", password, "", r)

\* A login that stores whatever unlock_keychain gave, also when it failed
login_clears ==
    \E password \in Passwords :
        LET r == unlock_keychain(file, password)
        IN  /\ file' = r.file
            /\ session' = r.key
            /\ user' = user
            /\ last' = Cmd("login", password, "", r)

login ==
    \E password \in Passwords :
        LET r == unlock_keychain(file, password)
        IN  /\ file' = r.file
            /\ session' = IF r.res = "Ok" THEN r.key ELSE session
            /\ user' = user
            /\ last' = Cmd("login", password, "", r)

logout ==
    /\ session' = NoKey
    /\ last' = Early("logout", "", "Ok")
    /\ UNCHANGED <<file, user>>

change_user_password ==
    \E new_password \in Passwords, ps \in Salts, pn \in NonceVals :
        IF session = NoKey
        THEN /\ last' = Early("change_user_password", new_password, "Vault is locked.")
             /\ UNCHANGED <<file, session, user>>
        ELSE LET r == change_password(file, session, new_password, ps, pn)
             IN  /\ file' = r.file
                 /\ session' = session
                 /\ user' = IF r.res = "Ok" THEN [user EXCEPT !.password = new_password]
                            ELSE user
                 /\ last' = Cmd("change_user_password", new_password, "", r)

recover_vault ==
    \E recovery_code \in Codes, new_password \in Passwords, ps \in Salts, pn \in NonceVals :
        LET r == recover_with_code(file, recovery_code, new_password, ps, pn)
        IN  /\ file' = r.file
            /\ session' = IF r.res = "Ok" THEN r.key ELSE session
            /\ user' = IF r.res = "Ok" THEN [user EXCEPT !.password = new_password]
                       ELSE user
            /\ last' = Cmd("recover_vault", new_password, recovery_code, r)

\* The 64 random bits of a new code never repeat the code in use (a repeat
\* has probability 2^-64).
regenerate_recovery_code ==
    \E ns \in CodeDraws, rs \in Salts, rn \in NonceVals :
        IF session = NoKey
        THEN /\ last' = Early("regenerate_recovery_code", "",
                                "Vault is locked. Cannot reset code.")
             /\ UNCHANGED <<file, session, user>>
        ELSE /\ RecoveryCode(ns) # user.recovery_code
             /\ LET r == reset_recovery_code(file, session, ns, rs, rn)
                IN  /\ file' = r.file
                    /\ session' = session
                    /\ user' = IF r.res = "Ok" THEN [user EXCEPT !.recovery_code = r.code]
                               ELSE user
                    /\ last' = Cmd("regenerate_recovery_code", "", "", r)

KeychainIdle ==
    /\ file = NoFile
    /\ session = NoKey
    /\ user = NoUser
    /\ last = Early("none", "", "")

\* The session mutex is free and no thread is in a command
NoThreads == [mutex |-> 0, t |-> <<>>]

\* No decryption is creating its output file
NoCalls == [files |-> {}, t |-> <<>>]

\* Nothing else is running
ExtraIdle ==
    /\ nc = [pc |-> "idle"]
    /\ batch = [pc |-> "idle"]
    /\ thr = NoThreads
    /\ unl = [pc |-> "idle"]
    /\ od = NoCalls

KeychainInit == KeychainIdle /\ CodecIdle /\ ExtraIdle

KeychainNext ==
    \/ init_vault /\ UNCHANGED <<cvars, xvars>>
    \/ login /\ UNCHANGED <<cvars, xvars>>
    \/ logout /\ UNCHANGED <<cvars, xvars>>
    \/ change_user_password /\ UNCHANGED <<cvars, xvars>>
    \/ recover_vault /\ UNCHANGED <<cvars, xvars>>
    \/ regenerate_recovery_code /\ UNCHANGED <<cvars, xvars>>

KeychainSpec == KeychainInit /\ [][KeychainNext]_vars

\* The store file is attacker-controlled input: bits of either slot's
\* ciphertext may be flipped on disk between commands.
tamper_store ==
    /\ file.exists
    /\ \E slot \in {"encrypted_master_key_pass", "encrypted_master_key_recovery"} :
           /\ file[slot].tagok
           /\ file' = [file EXCEPT ![slot] = Corrupt(@)]
    /\ last' = Early("tamper_store", "", "")
    /\ UNCHANGED <<session, user>>
    /\ UNCHANGED <<cvars, xvars>>

TamperNext ==
    \/ KeychainNext
    \/ tamper_store

TamperSpec == KeychainInit /\ [][TamperNext]_vars

-----------------------------------------------------------------------------
(* What can happen to a container file between its writing and its reading *)

Untouched == enc.pc = "done" /\ dec.pc = "idle" /\ tamper.kind = "none"

Swap(body, i, j) == [body EXCEPT ![i] = body[j], ![j] = body[i]]
InsertAt(body, j, rec) == SubSeq(body, 1, j - 1) \o <<rec>> \o SubSeq(body, j, Len(body))

swap_records ==
    /\ Untouched
    /\ \E i, j \in 1..Len(disk.body) :
        /\ i < j
        /\ disk' = [disk EXCEPT !.body = Swap(@, i, j)]
        /\ tamper' = [kind |-> "swap", i |-> i - 1, j |-> j - 1]
    /\ UNCHANGED <<inp, enc, dec, dir, leg>>

\* A copy of record i inserted before position j, or written over record j
duplicate_record ==
    /\ Untouched
    /\ \E i \in 1..Len(disk.body), j \in 1..(Len(disk.body) + 1), over \in BOOLEAN :
        /\ over => (j <= Len(disk.body) /\ j # i)
        /\ LET body == IF over THEN [disk.body EXCEPT ![j] = disk.body[i]]
                       ELSE InsertAt(disk.body, j, disk.body[i])
           IN  disk' = [disk EXCEPT !.body = body, !.size = BodySize(body)]
        /\ tamper' = [kind |-> "duplicate", i |-> i - 1, j |-> j - 1]
    /\ UNCHANGED <<inp, enc, dec, dir, leg>>

\* The file cut so that only n bytes of the record stream remain
truncate ==
    /\ Untouched
    /\ \E n \in 0..(disk.size - 1) :
        /\ disk' = [disk EXCEPT !.size = n]
        /\ tamper' = [kind |-> "truncate", i |-> n, j |-> 0]
    /\ UNCHANGED <<inp, enc, dec, dir, leg>>

\* The header rewritten with another original_filename
rename_header ==
    /\ Untouched
    /\ \E f \in Filenames \ {disk.header.original_filename} :
        /\ disk' = [disk EXCEPT !.header.original_filename = f]
        /\ tamper' = [kind |-> "rename", i |-> 0, j |-> 0]
    /\ UNCHANGED <<inp, enc, dec, dir, leg>>

-----------------------------------------------------------------------------
(* crypto_stream.rs: decrypt_file_stream *)

Fail(d, e) == [d EXCEPT !.pc = "err", !.result = e]

\* Lines 243-253: open the file, skip the version bytes, parse the header
decrypt_begin ==
    /\ enc.pc = "done"
    /\ dec.pc = "idle"
    /\ \E mk \in MasterKeys, kf \in {NoKeyfile} \cup Keyfiles :
        dec' = [dec EXCEPT !.pc = "validate", !.master_key = mk, !.keyfile = kf]
    /\ UNCHANGED <<inp, enc, disk, tamper, dir, leg>>

\* Mutant: a decryptor that goes on to the File Key without the tag check
decrypt_validate_skipped ==
    /\ dec.pc = "validate"
    /\ dec' = [dec EXCEPT !.pc = "unwrap"]
    /\ UNCHANGED <<inp, enc, disk, tamper, dir, leg>>

\* Lines 255-268: derive the wrapping key and open the validation tag
decrypt_validate ==
    /\ dec.pc = "validate"
    /\ LET wrapping_key == derive_wrapping_key(dec.master_key, dec.keyfile)
           h == disk.header
           tag == Decrypt(wrapping_key, h.validation_nonce, h.encrypted_validation_tag)
       IN  dec' = IF Len(h.validation_nonce) # AES_NONCE_LEN THEN Fail(dec, "PANIC")
                  ELSE IF ~tag.ok THEN Fail(dec, "Decryption Denied. Check password.")
                  ELSE IF tag.p # VALIDATION_MAGIC THEN Fail(dec, "Validation tag mismatch.")
                  ELSE [dec EXCEPT !.pc = "unwrap"]
    /\ UNCHANGED <<inp, enc, disk, tamper, dir, leg>>

\* Lines 270-277: unwrap the File Key
decrypt_unwrap ==
    /\ dec.pc = "unwrap"
    /\ LET wrapping_key == derive_wrapping_key(dec.master_key, dec.keyfile)
           h == disk.header
           file_key_vec == Decrypt(wrapping_key, h.key_wrapping_nonce, h.encrypted_file_key)
       IN  dec' = IF Len(h.key_wrapping_nonce) # AES_NONCE_LEN THEN Fail(dec, "PANIC")
                  ELSE IF ~file_key_vec.ok THEN Fail(dec, "Failed to unwrap file key")
                  ELSE IF file_key_vec.p.len # FILE_KEY_LEN THEN Fail(dec, "PANIC")
                  ELSE [dec EXCEPT !.pc = "create", !.file_key = file_key_vec.p.v]
    /\ UNCHANGED <<inp, enc, disk, tamper, dir, leg>>

\* Lines 279-291: pick a name no file in output_dir has and create the file
decrypt_create ==
    /\ dec.pc = "create"
    /\ LET final == get_unique_path(dir.names, disk.header.original_filename)
       IN  dir' = [names |-> dir.names \cup {final},
                   out |-> [created |-> TRUE, name |-> final, data |-> <<>>]]
    /\ dec' = [dec EXCEPT !.pc = "loop"]
    /\ UNCHANGED <<inp, enc, disk, tamper, leg>>

\* Mutant: a loop that takes any declared length
decrypt_chunk_unguarded ==
    /\ dec.pc = "loop"
    /\ LET remaining == disk.size - dec.off
           rec == disk.body[dec.chunk_index + 1]
           chunk_len == rec.len
           nonce == ChunkNonce(disk.header.base_nonce, U64(dec.chunk_index))
           compressed == Decrypt(dec.file_key, nonce, rec.ct)
           plaintext == decompress_chunk(compressed.p)
       IN  IF remaining < LEN_PREFIX
           THEN /\ dec' = [dec EXCEPT !.pc = "done", !.result = dir.out.name]
                /\ dir' = dir
           ELSE IF remaining - LEN_PREFIX < chunk_len
           THEN /\ dec' = Fail(dec, "failed to fill whole buffer")
                /\ dir' = dir
           ELSE IF Len(disk.header.base_nonce) # AES_NONCE_LEN
           THEN /\ dec' = Fail(dec, "PANIC")
                /\ dir' = dir
           ELSE IF ~compressed.ok
           THEN /\ dec' = [Fail(dec, "Chunk decryption failed")
                              EXCEPT !.err_chunk = dec.chunk_index]
                /\ dir' = dir
           ELSE IF ~plaintext.ok
           THEN /\ dec' = Fail(dec, "Decompression failed")
                /\ dir' = dir
           ELSE /\ dir' = [dir EXCEPT !.out.data = @ \o plaintext.data]
                /\ dec' = [dec EXCEPT !.chunk_index = @ + 1,
                                      !.off = @ + LEN_PREFIX + chunk_len]
    /\ UNCHANGED <<inp, enc, disk, tamper, leg>>

\* Lines 298-343, 345-346: one pass of the loop, or its exit at end of file
decrypt_chunk ==
    /\ dec.pc = "loop"
    /\ LET remaining == disk.size - dec.off
           rec == disk.body[dec.chunk_index + 1]
           chunk_len == rec.len
           nonce == ChunkNonce(disk.header.base_nonce, U64(dec.chunk_index))
           compressed == Decrypt(dec.file_key, nonce, rec.ct)
           plaintext == decompress_chunk(compressed.p)
       IN  IF remaining < LEN_PREFIX
           THEN /\ dec' = [dec EXCEPT !.pc = "done", !.result = dir.out.name]
                /\ dir' = dir
           ELSE IF chunk_len > CHUNK_SIZE + CHUNK_SLACK
           THEN /\ dec' = Fail(dec, "Chunk size too large (corrupt file?)")
                /\ dir' = dir
           ELSE IF remaining - LEN_PREFIX < chunk_len
           THEN /\ dec' = Fail(dec, "failed to fill whole buffer")
                /\ dir' = dir
           ELSE IF Len(disk.header.base_nonce) # AES_NONCE_LEN
           THEN /\ dec' = Fail(dec, "PANIC")
                /\ dir' = dir
           ELSE IF ~compressed.ok
           THEN /\ dec' = [Fail(dec, "Chunk decryption failed")
                              EXCEPT !.err_chunk = dec.chunk_index]
                /\ dir' = dir
           ELSE IF ~plaintext.ok
           THEN /\ dec' = Fail(dec, "Decompression failed")
                /\ dir' = dir
           ELSE /\ dir' = [dir EXCEPT !.out.data = @ \o plaintext.data]
                /\ dec' = [dec EXCEPT !.chunk_index = @ + 1,
                                      !.off = @ + LEN_PREFIX + chunk_len]
    /\ UNCHANGED <<inp, enc, disk, tamper, leg>>

-----------------------------------------------------------------------------
(* crypto.rs: the legacy whole-file codec *)

LEGACY_VERSION == 3

\* kyber1024: a keypair, and an encapsulation against its public key
KyberPairs == {"kp1"}
encapsulate(kp) == [ss |-> <<"ss", kp>>, ct |-> <<"kyber_ct", kp>>]
\* Decapsulating under another secret key yields an unrelated secret, not an error
decapsulate(ct, sk) == IF ct[2] = sk THEN <<"ss", ct[2]>> ELSE <<"ss_rejected", ct[2]>>

\* zstd::stream::encode_all and decode_all
compress_data(data, level) == compress_chunk(data, level)
\* Mutant: decode_all losing the last run
decompress_data_short(data) == decompress_chunk_short(data)
decompress_data(data) == decompress_chunk(data)

\* The three nonces the function draws from its generator, in order
LegacyRngOut(hn, wn, vn) ==
    [hybrid_nonce |-> [j \in 1..AES_NONCE_LEN |-> hn],
     wrapping_nonce |-> [j \in 1..AES_NONCE_LEN |-> wn],
     validation_nonce |-> [j \in 1..AES_NONCE_LEN |-> vn]]

\* OsRng, and ChaCha20Rng::from_seed(seed)
LegacyRngDraws == {LegacyRngOut(5, 6, 6)}
LegacyChaCha20Rng(seed) ==
    LegacyRngOut(16 * SeedNo(seed) + 1, 16 * SeedNo(seed) + 2, 16 * SeedNo(seed) + 3)

\* kyber1024::keypair() draws from the operating system, never from `rng`

encrypt_file_with_master_key(master_key, keyfile_bytes, filename, file_bytes, rng, kp, level) ==
    LET original_hash == Sha256(file_bytes)
        compressed_bytes == compress_data(file_bytes, level)
        plaintext_blob == [filename |-> filename, content |-> compressed_bytes]
        kem == encapsulate(kp)
        wrapping_key == derive_wrapping_key(master_key, keyfile_bytes)
    IN  [exists |-> TRUE,
         version |-> LEGACY_VERSION,
         header |->
             [wrapping_nonce |-> rng.wrapping_nonce,
              encrypted_private_key |-> Encrypt(wrapping_key, rng.wrapping_nonce, kp),
              validation_nonce |-> rng.validation_nonce,
              encrypted_validation_tag |->
                  Encrypt(wrapping_key, rng.validation_nonce, VALIDATION_MAGIC),
              hybrid_nonce |-> rng.hybrid_nonce,
              kyber_encapped_session_key |-> kem.ct,
              uses_keyfile |-> keyfile_bytes # NoKeyfile,
              original_hash |-> original_hash],
         ciphertext |-> Encrypt(kem.ss, rng.hybrid_nonce, plaintext_blob)]

legacy_encrypt ==
    /\ leg.pc = "idle"
    /\ enc.pc = "idle"
    /\ \E rng \in (IF inp.entropy_seed = NoSeed THEN LegacyRngDraws
                   ELSE {LegacyChaCha20Rng(inp.entropy_seed)}),
          kp \in KyberPairs :
        leg' = [leg EXCEPT !.pc = "sealed",
                           !.container =
                               encrypt_file_with_master_key(
                                   inp.master_key, inp.keyfile, inp.filename, inp.data,
                                   rng, kp, inp.level)]
    /\ UNCHANGED <<inp, enc, disk, tamper, dec, dir>>

LegFail(l, e) == [l EXCEPT !.pc = "err", !.result = e]

\* Lines 288-293: the keyfile requirement
legacy_decrypt_begin ==
    /\ leg.pc = "sealed"
    /\ \E mk \in MasterKeys, kf \in {NoKeyfile} \cup Keyfiles :
        LET l == [leg EXCEPT !.master_key = mk, !.keyfile = kf]
        IN  leg' = IF leg.container.header.uses_keyfile /\ kf = NoKeyfile
                   THEN LegFail(l, "This file requires a Keyfile. Please select it.")
                   ELSE [l EXCEPT !.pc = "validate"]
    /\ UNCHANGED <<inp, enc, disk, tamper, dec, dir>>

\* Lines 295-314: derive the wrapping key and open the validation tag
legacy_validate ==
    /\ leg.pc = "validate"
    /\ LET wrapping_key == derive_wrapping_key(leg.master_key, leg.keyfile)
           h == leg.container.header
           tag == Decrypt(wrapping_key, h.validation_nonce, h.encrypted_validation_tag)
       IN  leg' = IF Len(h.validation_nonce) # AES_NONCE_LEN THEN LegFail(leg, "PANIC")
                  ELSE IF ~tag.ok
                  THEN LegFail(leg, "Decryption Denied. Master Key or Keyfile is incorrect.")
                  ELSE IF tag.p # VALIDATION_MAGIC
                  THEN LegFail(leg, "Validation tag mismatch.")
                  ELSE [leg EXCEPT !.pc = "unwrap"]
    /\ UNCHANGED <<inp, enc, disk, tamper, dec, dir>>

\* Lines 316-323: recover the Kyber private key
legacy_unwrap ==
    /\ leg.pc = "unwrap"
    /\ LET wrapping_key == derive_wrapping_key(leg.master_key, leg.keyfile)
           h == leg.container.header
           sk_bytes == Decrypt(wrapping_key, h.wrapping_nonce, h.encrypted_private_key)
       IN  leg' = IF Len(h.wrapping_nonce) # AES_NONCE_LEN THEN LegFail(leg, "PANIC")
                  ELSE IF ~sk_bytes.ok THEN LegFail(leg, "Failed to decrypt private key")
                  ELSE [leg EXCEPT !.pc = "body", !.sk = sk_bytes.p]
    /\ UNCHANGED <<inp, enc, disk, tamper, dec, dir>>

\* Lines 325-359: decapsulate, decrypt the body, decompress, compare the hash
legacy_body ==
    /\ leg.pc = "body"
    /\ LET h == leg.container.header
           ss == decapsulate(h.kyber_encapped_session_key, leg.sk)
           decrypted_blob == Decrypt(ss, h.hybrid_nonce, leg.container.ciphertext)
           content == decompress_data(decrypted_blob.p.content)
       IN  leg' = IF Len(h.hybrid_nonce) # AES_NONCE_LEN THEN LegFail(leg, "PANIC")
                  ELSE IF ~decrypted_blob.ok THEN LegFail(leg, "Body decryption failed.")
                  ELSE IF ~content.ok THEN LegFail(leg, "Decompression failed")
                  ELSE IF h.original_hash # "None" /\ Sha256(content.data) # h.original_hash
                  THEN LegFail(leg, "INTEGRITY ERROR")
                  ELSE [leg EXCEPT !.pc = "done", !.result = "Ok",
                                   !.payload = [filename |-> decrypted_blob.p.filename,
                                                content |-> content.data]]
    /\ UNCHANGED <<inp, enc, disk, tamper, dec, dir>>

\* The names already in output_dir when decryption starts
DirsFor(name) == {{}, {name}, {name, NumberedName(name, 1)}}

CodecStart ==
    /\ inp \in [exists : {TRUE}, filename : Filenames, data : Plaintexts,
                master_key : {"mk1"}, keyfile : {NoKeyfile, "kf1"}, level : Levels,
                entropy_seed : {NoSeed} \cup Seeds]
    /\ enc = EncIdle
    /\ disk = NoContainer
    /\ tamper = [kind |-> "none"]
    /\ dec = DecIdle
    /\ dir \in {[names |-> n, out |-> NoOutput] : n \in DirsFor(inp.filename)}
    /\ leg = LegIdle

CodecInit == CodecStart /\ KeychainIdle /\ ExtraIdle

CodecNext ==
    \/ encrypt_begin /\ UNCHANGED <<kvars, xvars>>
    \/ encrypt_chunk /\ UNCHANGED <<kvars, xvars>>
    \/ encrypt_finish /\ UNCHANGED <<kvars, xvars>>
    \/ swap_records /\ UNCHANGED <<kvars, xvars>>
    \/ duplicate_record /\ UNCHANGED <<kvars, xvars>>
    \/ truncate /\ UNCHANGED <<kvars, xvars>>
    \/ rename_header /\ UNCHANGED <<kvars, xvars>>
    \/ decrypt_begin /\ UNCHANGED <<kvars, xvars>>
    \/ decrypt_validate /\ UNCHANGED <<kvars, xvars>>
    \/ decrypt_unwrap /\ UNCHANGED <<kvars, xvars>>
    \/ decrypt_create /\ UNCHANGED <<kvars, xvars>>
    \/ decrypt_chunk /\ UNCHANGED <<kvars, xvars>>
    \/ legacy_encrypt /\ UNCHANGED <<kvars, xvars>>
    \/ legacy_decrypt_begin /\ UNCHANGED <<kvars, xvars>>
    \/ legacy_validate /\ UNCHANGED <<kvars, xvars>>
    \/ legacy_unwrap /\ UNCHANGED <<kvars, xvars>>
    \/ legacy_body /\ UNCHANGED <<kvars, xvars>>

CodecSpec == CodecInit /\ [][CodecNext]_vars

-----------------------------------------------------------------------------
(* crypto_stream.rs: the rolling nonce over the whole range of chunk_index *)

\* Base nonces the generator may draw
BaseNonces == {[j \in 1..AES_NONCE_LEN |-> 0],
               [j \in 1..AES_NONCE_LEN |-> 255],
               [j \in 1..AES_NONCE_LEN |-> (37 * j) % 256]}

\* Values of chunk_index on both sides of every byte boundary of a u64
Indices == {<<0, 0, 0, 0>>, <<1, 0, 0, 0>>, <<255, 0, 0, 0>>, <<256, 0, 0, 0>>,
            <<65535, 0, 0, 0>>, <<0, 1, 0, 0>>, <<65535, 65535, 0, 0>>,
            <<0, 0, 1, 0>>, <<1, 0, 1, 0>>, <<0, 0, 0, 256>>,
            <<65535, 65535, 65535, 65535>>}

\* a < b as u64
LessU64(a, b) ==
    \E l \in 1..4 : a[l] < b[l] /\ \A m \in (l + 1)..4 : a[m] = b[m]

NonceStart ==
    /\ nc \in [pc : {"enc"}, base_nonce : BaseNonces, chunk_index : {<<0, 0, 0, 0>>},
                made : {{}}, dec : {<<>>}]
    /\ batch = [pc |-> "idle"]
    /\ thr = NoThreads
    /\ unl = [pc |-> "idle"]
    /\ od = NoCalls

NonceInit == NonceStart /\ KeychainIdle /\ CodecIdle

\* encrypt_file_stream, lines 196-205: the nonce chunk chunk_index is sealed under
nonce_encrypt ==
    /\ nc.pc = "enc"
    /\ nc' = [nc EXCEPT !.pc = "dec",
                        !.made = @ \cup {<<nc.chunk_index,
                                           ChunkNonce(nc.base_nonce, nc.chunk_index)>>}]
    /\ UNCHANGED <<batch, thr, unl, od>>

\* decrypt_file_stream, lines 317-324: the nonce it opens that record under
nonce_decrypt ==
    /\ nc.pc = "dec"
    /\ nc' = [nc EXCEPT !.pc = "next",
                        !.dec = ChunkNonce(nc.base_nonce, nc.chunk_index)]
    /\ UNCHANGED <<batch, thr, unl, od>>

\* chunk_index += 1, any number of times: the loops go on to a later chunk
nonce_advance ==
    /\ nc.pc = "next"
    /\ \E ix \in Indices :
        /\ LessU64(nc.chunk_index, ix)
        /\ nc' = [nc EXCEPT !.pc = "enc", !.chunk_index = ix]
    /\ UNCHANGED <<batch, thr, unl, od>>

NonceNext ==
    \/ nonce_encrypt /\ UNCHANGED <<kvars, cvars>>
    \/ nonce_decrypt /\ UNCHANGED <<kvars, cvars>>
    \/ nonce_advance /\ UNCHANGED <<kvars, cvars>>

NonceSpec == NonceInit /\ [][NonceNext]_vars

-----------------------------------------------------------------------------
(* commands/files.rs and commands.rs: the two lock_file commands *)

\* The state init_vault leaves behind: a store on disk and its key in the session
FirstInit == init_keychain(NoFile, "pw1", "mk1", "c2FsdDE", 1, <<1, 2, 3, 4>>, "c2FsdDI", 2, "v1")
VaultOpen ==
    /\ file = FirstInit.file
    /\ session = FirstInit.key
    /\ user = [password |-> "pw1", recovery_code |-> FirstInit.code,
               master_key |-> FirstInit.key]
    /\ last = Cmd("init_vault", "pw1", "", FirstInit)

NoEntropy == "None"
CompressionModes == {"store", "extreme", "auto", "fast", "best"}

\* The files a batch may name: regular files, lower-case names
BatchFiles == {[name |-> <<"a", ".", "t">>, data |-> <<0, 1>>],
               [name |-> <<"b">>, data |-> <<>>],
               [name |-> <<"c", ".", "g", "z">>, data |-> <<1, 1, 1>>]}

RECURSIVE ListsUpTo(_, _)
ListsUpTo(S, n) ==
    IF n = 0 THEN {<<>>}
    ELSE LET shorter == ListsUpTo(S, n - 1)
         IN  shorter \cup {Append(q, x) : q \in {y \in shorter : Len(y) = n - 1}, x \in S}

CompressedExts ==
    {<<"j", "p", "g">>, <<"j", "p", "e", "g">>, <<"p", "n", "g">>, <<"g", "i", "f">>,
     <<"w", "e", "b", "p">>, <<"z", "i", "p">>, <<"7", "z">>, <<"r", "a", "r">>,
     <<"g", "z">>, <<"b", "z", "2">>, <<"x", "z">>, <<"m", "p", "4">>, <<"m", "k", "v">>,
     <<"m", "o", "v">>, <<"a", "v", "i">>, <<"w", "e", "b", "m">>, <<"m", "p", "3">>,
     <<"a", "a", "c">>, <<"f", "l", "a", "c">>, <<"w", "a", "v">>, <<"p", "d", "f">>}

is_already_compressed(filename) ==
    SplitName(filename).has_ext /\ SplitName(filename).ext \in CompressedExts

\* format!("{}.qre", file_path)
QreName(name) == name \o <<".", "q", "r", "e">>

BatchArgs ==
    [pc : {"call"}, fn : {"commands/files.rs", "commands.rs"},
     file_paths : ListsUpTo(BatchFiles, MaxBatch) \ {<<>>},
     keyfile : {NoKeyfile, "kf1"},
     extra_entropy : {NoEntropy} \cup {EntropyList[k] : k \in 1..Len(EntropyList)},
     compression_mode : CompressionModes,
     master_key : {NoKey}, entropy_seed : {NoSeed}, level : {0}, file_index : {0},
     final_path : {<<>>}, results : {<<>>}, result : {""}]

BatchInit ==
    /\ batch \in BatchArgs
    /\ KeychainIdle \/ VaultOpen
    /\ inp = [exists |-> FALSE]
    /\ enc = EncIdle
    /\ disk = NoContainer
    /\ tamper = [kind |-> "none"]
    /\ dec = DecIdle
    /\ dir = [names |-> {batch.file_paths[k].name : k \in 1..Len(batch.file_paths)},
              out |-> NoOutput]
    /\ leg = LegIdle
    /\ nc = [pc |-> "idle"]
    /\ thr = NoThreads
    /\ unl = [pc |-> "idle"]
    /\ od = NoCalls

\* commands/files.rs, lines 83-105: the Master Key of the session, or none
lock_file_begin ==
    /\ batch.pc = "call"
    /\ batch.fn = "commands/files.rs"
    /\ batch' = IF session = NoKey
                THEN [batch EXCEPT !.pc = "err", !.result = "Vault is locked."]
                ELSE [batch EXCEPT !.pc = "loop", !.master_key = session]
    /\ UNCHANGED <<inp, enc, disk, leg, dir>>

\* commands/files.rs, lines 110-195: the level, the output path and the seed
\* of the next file, and the call of encrypt_file_stream
lock_file_next ==
    /\ batch.pc = "loop"
    /\ batch.fn = "commands/files.rs"
    /\ batch.file_index < Len(batch.file_paths)
    /\ LET f == batch.file_paths[batch.file_index + 1]
           level == IF batch.compression_mode = "store" THEN 0
                    ELSE IF batch.compression_mode = "extreme" THEN 19
                    ELSE IF is_already_compressed(f.name) THEN 1 ELSE 3
           final_path == get_unique_path(dir.names, QreName(f.name))
           entropy_seed ==
               IF batch.extra_entropy = NoEntropy THEN NoSeed
               ELSE Sha256(<<batch.extra_entropy, to_le_bytes(U64(batch.file_index))>>)
       IN  /\ batch' = [batch EXCEPT !.pc = "encrypting", !.level = level,
                                     !.final_path = final_path,
                                     !.entropy_seed = entropy_seed]
           /\ inp' = [exists |-> TRUE, filename |-> f.name, data |-> f.data,
                      master_key |-> batch.master_key, keyfile |-> batch.keyfile,
                      level |-> level, entropy_seed |-> entropy_seed]
    /\ enc' = EncIdle
    /\ disk' = NoContainer
    /\ UNCHANGED <<leg, dir>>

\* commands/files.rs, lines 201-217: the container is at final_path
lock_file_collect ==
    /\ batch.pc = "encrypting"
    /\ batch.fn = "commands/files.rs"
    /\ enc.pc = "done"
    /\ batch' = [batch EXCEPT !.pc = "loop", !.file_index = @ + 1,
                              !.results = Append(@, [name |-> inp.filename,
                                                     message |-> "Locked",
                                                     path |-> batch.final_path,
                                                     seed |-> batch.entropy_seed,
                                                     container |-> disk])]
    /\ dir' = [dir EXCEPT !.names = @ \cup {batch.final_path}]
    /\ enc' = EncIdle
    /\ UNCHANGED <<inp, disk, leg>>

\* commands.rs, lines 452-485: the Master Key, the level, and one seed,
\* SHA-256 of the entropy, for the whole batch
commands_rs_lock_file_begin ==
    /\ batch.pc = "call"
    /\ batch.fn = "commands.rs"
    /\ LET compression_level == IF batch.compression_mode = "fast" THEN 1
                                ELSE IF batch.compression_mode = "best" THEN 15
                                ELSE 3
           entropy_seed == IF batch.extra_entropy = NoEntropy THEN NoSeed
                           ELSE Sha256(<<batch.extra_entropy>>)
       IN  batch' = IF session = NoKey
                    THEN [batch EXCEPT !.pc = "err", !.result = "Vault is locked."]
                    ELSE [batch EXCEPT !.pc = "loop", !.master_key = session,
                                       !.level = compression_level,
                                       !.entropy_seed = entropy_seed]
    /\ UNCHANGED <<inp, enc, disk, leg, dir>>

\* commands.rs, lines 491-539: read the next file (none exceeds the size limit) and call
\* encrypt_file_with_master_key with the seed of the batch
commands_rs_lock_file_next ==
    /\ batch.pc = "loop"
    /\ batch.fn = "commands.rs"
    /\ batch.file_index < Len(batch.file_paths)
    /\ LET f == batch.file_paths[batch.file_index + 1]
       IN  inp' = [exists |-> TRUE, filename |-> f.name, data |-> f.data,
                   master_key |-> batch.master_key, keyfile |-> batch.keyfile,
                   level |-> batch.level, entropy_seed |-> batch.entropy_seed]
    /\ batch' = [batch EXCEPT !.pc = "encrypting"]
    /\ leg' = LegIdle
    /\ UNCHANGED <<enc, disk, dir>>

\* commands.rs, lines 540-562: save the container under a name not in use
commands_rs_lock_file_collect ==
    /\ batch.pc = "encrypting"
    /\ batch.fn = "commands.rs"
    /\ leg.pc = "sealed"
    /\ LET final_path == get_unique_path(dir.names, QreName(inp.filename))
       IN  /\ batch' = [batch EXCEPT !.pc = "loop", !.file_index = @ + 1,
                                     !.final_path = final_path,
                                     !.results = Append(@, [name |-> inp.filename,
                                                            message |-> "Locked",
                                                            path |-> final_path,
                                                            seed |-> batch.entropy_seed,
                                                            container |-> leg.container])]
           /\ dir' = [dir EXCEPT !.names = @ \cup {final_path}]
    /\ leg' = LegIdle
    /\ UNCHANGED <<inp, enc, disk>>

\* Either command: Ok(results) after the last file
lock_file_end ==
    /\ batch.pc = "loop"
    /\ batch.file_index = Len(batch.file_paths)
    /\ batch' = [batch EXCEPT !.pc = "done", !.result = "Ok"]
    /\ UNCHANGED <<inp, enc, disk, leg, dir>>

\* What no step of a batch touches
bvars == <<file, session, user, last, tamper, dec, nc, thr, unl, od>>

\* encrypt_file_stream and encrypt_file_with_master_key as lock_file calls them
BatchEncrypting == batch.pc = "encrypting" /\ UNCHANGED <<kvars, xvars>>

BatchNext ==
    \/ lock_file_begin /\ UNCHANGED bvars
    \/ lock_file_next /\ UNCHANGED bvars
    \/ lock_file_collect /\ UNCHANGED bvars
    \/ commands_rs_lock_file_begin /\ UNCHANGED bvars
    \/ commands_rs_lock_file_next /\ UNCHANGED bvars
    \/ commands_rs_lock_file_collect /\ UNCHANGED bvars
    \/ lock_file_end /\ UNCHANGED bvars
    \/ BatchEncrypting /\ encrypt_begin
    \/ BatchEncrypting /\ encrypt_chunk
    \/ BatchEncrypting /\ encrypt_finish
    \/ BatchEncrypting /\ legacy_encrypt

BatchSpec == BatchInit /\ [][BatchNext]_vars

-----------------------------------------------------------------------------
(* commands/vault.rs on several threads: each command is a thread that takes
   the session mutex where the code takes it, loads the store, and saves it *)

NThreads == 2
Guarded == {"change_user_password", "regenerate_recovery_code"}

\* The state logout leaves behind on an initialised vault
VaultClosed ==
    /\ file = FirstInit.file
    /\ session = NoKey
    /\ user = [password |-> "pw1", recovery_code |-> FirstInit.code,
               master_key |-> FirstInit.key]
    /\ last = Early("logout", "", "Ok")

ThreadStart ==
    [pc : {"start"}, cmd : Guarded \cup {"recover_vault"}, new_password : Passwords,
     recovery_code : Codes, master_key : {NoKey}, store : {NoFile}, res : {""},
     key : {NoKey}, out : {""}]

ConcInit ==
    /\ VaultOpen \/ VaultClosed
    /\ CodecIdle
    /\ nc = [pc |-> "idle"]
    /\ batch = [pc |-> "idle"]
    /\ unl = [pc |-> "idle"]
    /\ od = NoCalls
    /\ thr \in [mutex : {0}, t : [1..NThreads -> ThreadStart]]

\* Thread i returns an error; the guard it may hold is dropped
Returned(i, e) ==
    [thr EXCEPT !.t[i].pc = "returned", !.t[i].res = e,
                !.mutex = IF @ = i THEN 0 ELSE @]

\* vault.rs, lines 114-118 and 145-149: state.master_key.lock(), kept until
\* the command returns
cmd_lock(i) ==
    /\ thr.t[i].pc = "start"
    /\ thr.t[i].cmd \in Guarded
    /\ thr.mutex = 0
    /\ thr' = IF session = NoKey
              THEN Returned(i, IF thr.t[i].cmd = "change_user_password"
                               THEN "Vault is locked."
                               ELSE "Vault is locked. Cannot reset code.")
              ELSE [thr EXCEPT !.mutex = i, !.t[i].pc = "locked",
                               !.t[i].master_key = session]
    /\ UNCHANGED <<file, session, user>>

\* keychain.rs, lines 238-239, 307-308 and 356-357: the whole store is read;
\* recover_vault gets here without the mutex
cmd_load(i) ==
    /\ \/ thr.t[i].pc = "locked"
       \/ thr.t[i].pc = "start" /\ thr.t[i].cmd = "recover_vault"
    /\ thr' = IF ~file.exists THEN Returned(i, "No such file")
              ELSE [thr EXCEPT !.t[i].pc = "loaded", !.t[i].store = file]
    /\ UNCHANGED <<file, session, user>>

\* keychain.rs, lines 241-301, 311-351 and 360-394: one slot of the store that
\* was read is replaced and the whole store is written back
cmd_save(i) ==
    /\ thr.t[i].pc = "loaded"
    /\ LET t == thr.t[i]
       IN  \E ps \in Salts, pn \in NonceVals, ns \in CodeDraws :
             /\ t.cmd = "regenerate_recovery_code" => RecoveryCode(ns) # user.recovery_code
             /\ t.cmd # "regenerate_recovery_code" => ns = <<0, 0, 0, 0>>
             /\ LET r == IF t.cmd = "change_user_password"
                         THEN change_password(t.store, t.master_key, t.new_password, ps, pn)
                         ELSE IF t.cmd = "recover_vault"
                         THEN recover_with_code(t.store, t.recovery_code, t.new_password,
                                                ps, pn)
                         ELSE reset_recovery_code(t.store, t.master_key, ns, ps, pn)
                IN  IF r.res # "Ok"
                    THEN /\ thr' = Returned(i, r.res)
                         /\ UNCHANGED <<file, user>>
                    ELSE /\ thr' = [thr EXCEPT !.t[i].pc = "saved", !.t[i].key = r.key,
                                               !.t[i].out = r.code]
                         /\ file' = r.file
                         /\ user' = IF t.cmd = "regenerate_recovery_code" THEN user
                                    ELSE [user EXCEPT !.password = t.new_password]
    /\ UNCHANGED session

\* vault.rs, lines 122, 134-137 and 153: the guarded commands return and drop
\* the guard; recover_vault takes the mutex now, to store the key
cmd_return(i) ==
    /\ thr.t[i].pc = "saved"
    /\ thr.t[i].cmd = "recover_vault" => thr.mutex = 0
    /\ thr' = [thr EXCEPT !.t[i].pc = "returned", !.t[i].res = "Ok",
                          !.mutex = IF @ = i THEN 0 ELSE @]
    /\ session' = IF thr.t[i].cmd = "recover_vault" THEN thr.t[i].key ELSE session
    /\ user' = IF thr.t[i].cmd = "regenerate_recovery_code"
               THEN [user EXCEPT !.recovery_code = thr.t[i].out]
               ELSE user
    /\ UNCHANGED file

\* What no vault command touches
tvars == <<last, inp, enc, disk, tamper, dec, dir, leg, nc, batch, unl, od>>

ConcNext ==
    \E i \in 1..NThreads :
        \/ cmd_lock(i) /\ UNCHANGED tvars
        \/ cmd_load(i) /\ UNCHANGED tvars
        \/ cmd_save(i) /\ UNCHANGED tvars
        \/ cmd_return(i) /\ UNCHANGED tvars

ConcSpec == ConcInit /\ [][ConcNext]_vars

-----------------------------------------------------------------------------
(* commands/vault.rs, init_vault, on several threads: keychain::init_keychain
   runs before the command takes the session mutex *)

InitStart ==
    [pc : {"start"}, cmd : {"init_vault"}, new_password : Passwords,
     recovery_code : {""}, master_key : {NoKey}, store : {NoFile}, res : {""},
     key : {NoKey}, out : {""}]

InitConcInit ==
    /\ KeychainIdle \/ VaultClosed
    /\ CodecIdle
    /\ nc = [pc |-> "idle"]
    /\ batch = [pc |-> "idle"]
    /\ unl = [pc |-> "idle"]
    /\ od = NoCalls
    /\ thr \in [mutex : {0}, t : [1..NThreads -> InitStart]]

\* keychain.rs, lines 115-117: path.exists()
init_check(i) ==
    /\ thr.t[i].pc = "start"
    /\ thr' = IF file.exists THEN Returned(i, "Keychain already exists.")
              ELSE [thr EXCEPT !.t[i].pc = "loaded"]
    /\ UNCHANGED <<file, session, user>>

\* keychain.rs, lines 119-183: the key, the code and the two slots are made
\* and File::create writes the store over whatever is at the path
init_save(i) ==
    /\ thr.t[i].pc = "loaded"
    /\ \E mk \in MasterKeys, ps \in Salts, pn \in NonceVals, ns \in CodeDraws,
          rs \in Salts, rn \in NonceVals, vid \in VaultIds :
        LET r == init_keychain(NoFile, thr.t[i].new_password, mk, ps, pn, ns, rs, rn, vid)
        IN  /\ file' = r.file
            /\ thr' = [thr EXCEPT !.t[i].pc = "saved", !.t[i].key = r.key,
                                  !.t[i].out = r.code]
    /\ UNCHANGED <<session, user>>

\* vault.rs, lines 83-86: the key goes into the session, the code to the caller
init_return(i) ==
    /\ thr.t[i].pc = "saved"
    /\ thr.mutex = 0
    /\ thr' = [thr EXCEPT !.t[i].pc = "returned", !.t[i].res = "Ok"]
    /\ session' = thr.t[i].key
    /\ UNCHANGED <<file, user>>

InitConcNext ==
    \E i \in 1..NThreads :
        \/ init_check(i) /\ UNCHANGED tvars
        \/ init_save(i) /\ UNCHANGED tvars
        \/ init_return(i) /\ UNCHANGED tvars

InitConcSpec == InitConcInit /\ [][InitConcNext]_vars

-----------------------------------------------------------------------------
(* The readers of a container file: unlock_file of commands/files.rs and of
   commands.rs, EncryptedFileContainer::load, decrypt_file_stream *)

\* Values of the 4-byte little-endian version tag
Tags == {0, 1, 2, 3, 4, 5, 6, 7, 255, 65536, 2147483647}

\* What follows the tag: a container in the layout of version 2, 3, 4 or 5,
\* or bytes that are no container at all
Shapes == {"v2", "v3", "v4", "v5", "junk"}

\* A file shorter than the tag
ShortFile == [short |-> TRUE, version |-> 0, shape |-> "junk"]
Files == [short : {FALSE}, version : Tags, shape : Shapes] \cup {ShortFile}

Readers == {"unlock_file", "commands_rs_unlock_file", "load", "decrypt_file_stream"}

NoLoaded == [version |-> 0, original_hash |-> "None"]

\* format!("{}{}{}", text, version, rest)
Msg(text, version, rest) == <<text, version, rest>>

LoadErr(e, parsed) == [ok |-> FALSE, err |-> e, container |-> NoLoaded, parsed |-> parsed]

\* Mutant: a load that reads every other version as a version-3 container
load_any_version(f) ==
    IF f.short THEN LoadErr(<<"Failed to read version">>, FALSE)
    ELSE IF f.version = 2
    THEN IF f.shape = "v2"
         THEN [ok |-> TRUE, err |-> <<>>, parsed |-> TRUE,
               container |-> [version |-> 3, original_hash |-> "None"]]
         ELSE LoadErr(<<"Failed to parse Legacy V2 file">>, TRUE)
    ELSE IF f.shape = "v3"
         THEN [ok |-> TRUE, err |-> <<>>, parsed |-> TRUE,
               container |-> [version |-> f.version, original_hash |-> "Some"]]
         ELSE LoadErr(<<"Failed to parse V3 file">>, TRUE)

\* crypto.rs, lines 103-147.  bincode reads the whole file under the schema
\* the tag selects; bytes laid out under another schema do not deserialize.
load(f) ==
    IF f.short THEN LoadErr(<<"Failed to read version">>, FALSE)
    ELSE IF f.version = 2
    THEN IF f.shape = "v2"
         THEN [ok |-> TRUE, err |-> <<>>, parsed |-> TRUE,
               container |-> [version |-> 3, original_hash |-> "None"]]
         ELSE LoadErr(<<"Failed to parse Legacy V2 file">>, TRUE)
    ELSE IF f.version = 3
    THEN IF f.shape = "v3"
         THEN [ok |-> TRUE, err |-> <<>>, parsed |-> TRUE,
               container |-> [version |-> f.version, original_hash |-> "Some"]]
         ELSE LoadErr(<<"Failed to parse V3 file">>, TRUE)
    ELSE LoadErr(Msg("Unsupported version: ", f.version, ". Please update QRE Locker."),
                 FALSE)

UnlockInit ==
    /\ KeychainIdle
    /\ CodecIdle
    /\ nc = [pc |-> "idle"]
    /\ batch = [pc |-> "idle"]
    /\ thr = NoThreads
    /\ od = NoCalls
    /\ unl \in [pc : {"start"}, entry : Readers, file : Files, parsed : {FALSE},
                route : {"none"}, container : {NoLoaded}, success : {FALSE},
                message : {<<>>}]

UnlDone(ok, m) == [unl EXCEPT !.pc = "done", !.success = ok, !.message = m]

\* commands/files.rs, lines 272-284, 336 and 366-372: read the tag and branch
unlock_file_version ==
    /\ unl.pc = "start"
    /\ unl.entry = "unlock_file"
    /\ unl' = IF unl.file.short THEN UnlDone(FALSE, <<"Invalid file">>)
              ELSE IF unl.file.version = 4 THEN [unl EXCEPT !.pc = "load", !.route = "load"]
              ELSE IF unl.file.version = 5
              THEN [unl EXCEPT !.pc = "stream", !.route = "stream"]
              ELSE UnlDone(FALSE, Msg("Unsupported Version: ", unl.file.version, ""))

\* commands/files.rs, line 285, commands.rs, line 622, and load called on its
\* own: the container is loaded, then handed to decrypt_file_with_master_key
unlock_file_load ==
    /\ \/ unl.pc = "load"
       \/ unl.pc = "start" /\ unl.entry \in {"commands_rs_unlock_file", "load"}
    /\ LET r == load(unl.file)
       IN  unl' = IF r.ok
                  THEN [unl EXCEPT !.pc = "loaded", !.route = "load", !.parsed = r.parsed,
                                   !.container = r.container]
                  ELSE [UnlDone(FALSE, r.err) EXCEPT !.route = "load",
                                                     !.parsed = r.parsed]

\* crypto_stream.rs, lines 243-253: the tag is read and dropped, then the
\* header is deserialized
decrypt_file_stream_header ==
    /\ \/ unl.pc = "stream"
       \/ unl.pc = "start" /\ unl.entry = "decrypt_file_stream"
    /\ unl' = IF unl.file.short
              THEN [UnlDone(FALSE, <<"Failed to skip version bytes">>)
                       EXCEPT !.route = "stream"]
              ELSE IF unl.file.shape # "v5"
              THEN [UnlDone(FALSE, <<"Failed to read V5 Header">>)
                       EXCEPT !.route = "stream", !.parsed = TRUE]
              ELSE [unl EXCEPT !.pc = "header_read", !.route = "stream", !.parsed = TRUE]

uvars == <<file, session, user, last, inp, enc, disk, tamper, dec, dir, leg, nc, batch, thr, od>>

UnlockNext ==
    \/ unlock_file_version /\ UNCHANGED uvars
    \/ unlock_file_load /\ UNCHANGED uvars
    \/ decrypt_file_stream_header /\ UNCHANGED uvars

UnlockSpec == UnlockInit /\ [][UnlockNext]_vars

-----------------------------------------------------------------------------
(* Store files and container headers that no run of the program wrote: the
   fields hold what an attacker, or a damaged disk, put there *)

\* The store as the program itself writes it
WellFormedStore(f) ==
    /\ f.exists
    /\ f.password_nonce.len = NONCE_LEN
    /\ f.recovery_nonce.len = NONCE_LEN
    /\ f.password_salt \in Salts
    /\ f.recovery_salt \in Salts
    /\ f.kdf_parallelism >= 1
    /\ f.encrypted_master_key_pass.p.len = MASTER_KEY_LEN
    /\ f.encrypted_master_key_recovery.p.len = MASTER_KEY_LEN

\* One field of the JSON store rewritten: a nonce array of 11 bytes, a salt
\* that is no base64 salt, Argon2 parameters the library refuses, a slot that
\* seals 16 bytes
MalformedStores(f) ==
    {[f EXCEPT !.password_nonce.len = 11],
     [f EXCEPT !.recovery_nonce.len = 11],
     [f EXCEPT !.password_salt = "!!"],
     [f EXCEPT !.recovery_salt = "!!"],
     [f EXCEPT !.kdf_parallelism = 0],
     [f EXCEPT !.encrypted_master_key_pass.p.len = 16],
     [f EXCEPT !.encrypted_master_key_recovery.p.len = 16]}

malform_store ==
    /\ ~inp.exists
    /\ WellFormedStore(file)
    /\ file' \in MalformedStores(file)
    /\ last' = Early("malform_store", "", "")
    /\ UNCHANGED <<session, user>>
    /\ UNCHANGED <<cvars, xvars>>

\* A byte vector one byte short
Short(nonce) == SubSeq(nonce, 1, Len(nonce) - 1)

\* One field of a stream header rewritten: a nonce of 11 bytes, a wrapped
\* File Key with flipped bits or sealing 16 bytes, a validation tag sealing
\* other bytes
MalformedHeaders(h) ==
    {[h EXCEPT !.validation_nonce = Short(@)],
     [h EXCEPT !.key_wrapping_nonce = Short(@)],
     [h EXCEPT !.base_nonce = Short(@)],
     [h EXCEPT !.encrypted_file_key = Corrupt(@)],
     [h EXCEPT !.encrypted_file_key.p.len = 16],
     [h EXCEPT !.encrypted_validation_tag.p = "QRE_OTHER"]}

malform_header ==
    /\ Untouched
    /\ disk' \in {[disk EXCEPT !.header = h] : h \in MalformedHeaders(disk.header)}
    /\ tamper' = [kind |-> "header", i |-> 0, j |-> 0]
    /\ UNCHANGED <<inp, enc, dec, dir, leg>>

\* The same for the header of a legacy container
MalformedLegacyHeaders(h) ==
    {[h EXCEPT !.validation_nonce = Short(@)],
     [h EXCEPT !.wrapping_nonce = Short(@)],
     [h EXCEPT !.hybrid_nonce = Short(@)],
     [h EXCEPT !.encrypted_private_key = Corrupt(@)],
     [h EXCEPT !.encrypted_validation_tag.p = "QRE_OTHER"]}

malform_legacy_header ==
    /\ leg.pc = "sealed"
    /\ tamper.kind = "none"
    /\ leg' \in {[leg EXCEPT !.container.header = h] :
                    h \in MalformedLegacyHeaders(leg.container.header)}
    /\ tamper' = [kind |-> "header", i |-> 0, j |-> 0]
    /\ UNCHANGED <<inp, enc, disk, dec, dir>>

\* The length prefix of record i rewritten to a length no chunk can have;
\* the file is left as long as it was, or padded so that the bytes are there
OversizeLens == {CHUNK_SIZE + CHUNK_SLACK + 1, 2147483647}

oversize_record ==
    /\ Untouched
    /\ \E i \in 1..Len(disk.body), n \in OversizeLens, pad \in BOOLEAN :
        /\ disk' = [disk EXCEPT !.body[i].len = n,
                                !.body[i].ct = IF pad THEN Corrupt(@) ELSE @,
                                !.size = IF pad THEN n ELSE @]
        /\ tamper' = [kind |-> "oversize", i |-> i - 1, j |-> 0]
    /\ UNCHANGED <<inp, enc, dec, dir, leg>>

\* Either a vault with its store, or one file about to be encrypted
MalformInit ==
    \/ /\ VaultOpen \/ VaultClosed
       /\ CodecIdle
       /\ ExtraIdle
    \/ /\ KeychainIdle
       /\ ExtraIdle
       /\ inp \in [exists : {TRUE}, filename : {<<"b">>},
                   data : {p \in Plaintexts : Len(p) <= CHUNK_SIZE + 1},
                   master_key : {"mk1"}, keyfile : {NoKeyfile, "kf1"}, level : {1},
                   entropy_seed : {NoSeed}]
       /\ enc = EncIdle
       /\ disk = NoContainer
       /\ tamper = [kind |-> "none"]
       /\ dec = DecIdle
       /\ dir = [names |-> {}, out |-> NoOutput]
       /\ leg = LegIdle

StoreRun == ~inp.exists
HeaderRun == inp.exists /\ UNCHANGED <<kvars, xvars>>

MalformNext ==
    \/ StoreRun /\ login /\ UNCHANGED <<cvars, xvars>>
    \/ StoreRun /\ recover_vault /\ UNCHANGED <<cvars, xvars>>
    \/ malform_store
    \/ HeaderRun /\ encrypt_begin
    \/ HeaderRun /\ encrypt_chunk
    \/ HeaderRun /\ encrypt_finish
    \/ HeaderRun /\ malform_header
    \/ HeaderRun /\ oversize_record
    \/ HeaderRun /\ decrypt_begin
    \/ HeaderRun /\ decrypt_validate
    \/ HeaderRun /\ decrypt_unwrap
    \/ HeaderRun /\ decrypt_create
    \/ HeaderRun /\ decrypt_chunk
    \/ HeaderRun /\ legacy_encrypt
    \/ HeaderRun /\ malform_legacy_header
    \/ HeaderRun /\ legacy_decrypt_begin
    \/ HeaderRun /\ legacy_validate
    \/ HeaderRun /\ legacy_unwrap
    \/ HeaderRun /\ legacy_body

MalformSpec == MalformInit /\ [][MalformNext]_vars

-----------------------------------------------------------------------------
(* crypto_stream.rs, lines 279-346, and utils.rs, get_unique_path: several
   decrypt_file_stream calls creating their output files in one directory.
   A path is a sequence of components, each a sequence of characters. *)

NCalls == 2

DotDot == <<".", ".">>
OutputDir == <<(<<"o">>)>>
\* The directories there are: the root, output_dir, one inside it, one beside it
Dirs == {<<>>, OutputDir, <<(<<"o">>), (<<"s">>)>>, <<(<<"e">>)>>}

\* What the operating system makes of a path: ".." leaves the directory
RECURSIVE Resolve(_)
Resolve(path) ==
    IF Len(path) = 0 THEN <<>>
    ELSE LET before == Resolve(SubSeq(path, 1, Len(path) - 1))
             c == path[Len(path)]
         IN  IF c = DotDot
             THEN (IF Len(before) = 0 THEN <<>> ELSE SubSeq(before, 1, Len(before) - 1))
             ELSE Append(before, c)

\* Path::join: an absolute path replaces the base
Join(base, p) == IF p.abs THEN p.comps ELSE base \o p.comps

\* Path::parent and Path::file_name; a path ending in ".." has no file name
Parent(path) == SubSeq(path, 1, Len(path) - 1)
file_name(path) == IF path[Len(path)] = DotDot THEN <<>> ELSE path[Len(path)]

Paths(files) == {f.path : f \in files}

\* Path::exists
Exists(files, path) == Resolve(path) \in Dirs \cup Paths(files)

\* The names that exist in a directory
NamesIn(files, d) ==
    {q[Len(q)] : q \in {r \in Dirs \cup Paths(files) : Len(r) > 0 /\ Parent(r) = Resolve(d)}}

\* Mutant: numbering that starts over at 1 whatever exists
get_unique_path_first(files, path) ==
    IF ~Exists(files, path) THEN path
    ELSE Append(Parent(path), NumberedName(file_name(path), 1))

\* utils.rs, lines 97-119, on a path
get_unique_path_at(files, path) ==
    IF ~Exists(files, path) THEN path
    ELSE Append(Parent(path), UniqueFrom(NamesIn(files, Parent(path)), file_name(path), 1))

\* header.original_filename: a plain name, a name with an extension, a name
\* reached through "..", a name in a subdirectory, an absolute path, and ".."
HeaderNames ==
    {[abs |-> FALSE, comps |-> <<(<<"b">>)>>],
     [abs |-> FALSE, comps |-> <<(<<"a", ".", "t">>)>>],
     [abs |-> FALSE, comps |-> <<DotDot, (<<"b">>)>>],
     [abs |-> FALSE, comps |-> <<(<<"s">>), (<<"b">>)>>],
     [abs |-> TRUE, comps |-> <<(<<"e">>), (<<"b">>)>>],
     [abs |-> FALSE, comps |-> <<DotDot>>]}

\* A file: who created it (0: it was there before), what was written at
\* each chunk position and by whom
OldFile(path) == [path |-> path, by |-> {0}, data |-> <<0>>]

\* What output_dir may hold before the calls
OldFiles ==
    {{},
     {OldFile(OutputDir \o <<(<<"b">>)>>)},
     {OldFile(OutputDir \o <<(<<"b">>)>>), OldFile(OutputDir \o <<(<<"b", " ", "(", "1", ")">>)>>)},
     {OldFile(OutputDir \o <<(<<"a", ".", "t">>)>>), OldFile(<<(<<"b">>)>>)}}

CallStart ==
    [pc : {"start"}, original_filename : HeaderNames, seen : {{}}, raw : {<<>>},
     final : {<<>>}, final_filename : {<<>>}, result : {""}]

OutInit ==
    /\ KeychainIdle
    /\ CodecIdle
    /\ nc = [pc |-> "idle"]
    /\ batch = [pc |-> "idle"]
    /\ thr = NoThreads
    /\ unl = [pc |-> "idle"]
    /\ od \in [files : OldFiles, t : [1..NCalls -> CallStart]]

\* Lines 281-289: the path under output_dir, made unique; `seen` notes the
\* paths that existed when get_unique_path looked
out_unique(i) ==
    /\ od.t[i].pc = "start"
    /\ LET raw_output_path == Join(OutputDir, od.t[i].original_filename)
           final_output_path == get_unique_path_at(od.files, raw_output_path)
       IN  od' = [od EXCEPT !.t[i].pc = "named",
                            !.t[i].seen = Paths(od.files) \cup Dirs,
                            !.t[i].raw = raw_output_path,
                            !.t[i].final = final_output_path,
                            !.t[i].final_filename = file_name(final_output_path)]

\* Line 291: File::create makes the file, or empties the one that is there
out_create(i) ==
    /\ od.t[i].pc = "named"
    /\ LET p == Resolve(od.t[i].final)
       IN  IF p \in Dirs
           THEN od' = [od EXCEPT !.t[i].pc = "err", !.t[i].result = "Is a directory"]
           ELSE od' = [od EXCEPT
                          !.t[i].pc = "created",
                          !.files = {f \in @ : f.path # p} \cup
                                    {[path |-> p, data |-> <<>>,
                                      by |-> {i} \cup UNION {f.by : f \in {g \in @ : g.path = p}}]}]

\* Lines 298-346: the chunks go to the file through this call's own handle,
\* from its own offset 0, and the call returns the file name
out_write(i) ==
    /\ od.t[i].pc = "created"
    /\ LET p == Resolve(od.t[i].final)
       IN  od' = [od EXCEPT !.t[i].pc = "done",
                            !.t[i].result = "Ok",
                            !.files = {IF f.path = p THEN [f EXCEPT !.data = <<i>>] ELSE f :
                                          f \in @}]

ovars == <<file, session, user, last, inp, enc, disk, tamper, dec, dir, leg, nc, batch, thr, unl>>

OutNext ==
    \E i \in 1..NCalls :
        \/ out_unique(i) /\ UNCHANGED ovars
        \/ out_create(i) /\ UNCHANGED ovars
        \/ out_write(i) /\ UNCHANGED ovars

OutSpec == OutInit /\ [][OutNext]_vars

-----------------------------------------------------------------------------
(* Claims about the keychain *)

\* What each slot of store f opens to under the given secret
PasswordSlot(f, password) ==
    Decrypt(derive_kek(password, f.password_salt, f.kdf_memory, f.kdf_iterations,
                       f.kdf_parallelism).key,
            f.password_nonce, f.encrypted_master_key_pass)

RecoverySlot(f, code) ==
    Decrypt(derive_kek(code, f.recovery_salt, f.kdf_memory, f.kdf_iterations,
                       f.kdf_parallelism).key,
            f.recovery_nonce, f.encrypted_master_key_recovery)

\* recover_with_code(f, code, ..) returns `mk`, whatever new password and
\* randomness it is run with
RecoverReturns(f, code, mk) ==
    \A pw \in Passwords, ps \in Salts, pn \in NonceVals :
        LET r == recover_with_code(f, code, pw, ps, pn)
        IN  r.res = "Ok" /\ r.key = mk

RecoverFails(f, code) ==
    \A pw \in Passwords, ps \in Salts, pn \in NonceVals :
        LET r == recover_with_code(f, code, pw, ps, pn)
        IN  r.res # "Ok" /\ r.key = NoKey /\ r.file = f

UnlockReturns(f, password, mk) ==
    LET r == unlock_keychain(f, password) IN r.res = "Ok" /\ r.key = mk

\* C1: once init_keychain has written the store, after any sequence of
\* unlock, change_password, recover and reset both slots open to the same
\* 32-byte Master Key, the one init_keychain returned, and unlock(password)
\* and recover(recovery_code, new_password) return that key.
C1_SlotsHoldSameKey ==
    file.exists =>
        /\ user.master_key \in MasterKeys
        /\ PasswordSlot(file, user.password) = [ok |-> TRUE, p |-> KeyBytes(user.master_key)]
        /\ RecoverySlot(file, user.recovery_code)
               = [ok |-> TRUE, p |-> KeyBytes(user.master_key)]
        /\ UnlockReturns(file, user.password, user.master_key)
        /\ RecoverReturns(file, user.recovery_code, user.master_key)
        /\ session \in {NoKey, user.master_key}

\* C1 witness: the store was opened by recovery, which returned the key
C1_Witness ==
    /\ last.op = "recover_vault"
    /\ last.res = "Ok"
    /\ last.code = "QRE-FFFF-1234-ABCD-000A"
    /\ last.pw = "pw2"
    /\ last.key = user.master_key
    /\ session = last.key

\* C3: on an existing store, unlock_keychain with an incorrect password, or
\* with a corrupted password-slot ciphertext, returns "Incorrect Password"
\* and no key; recover_with_code with an incorrect code returns an error and
\* no key; neither changes the store file (nor the session).
C3_WrongSecretRejected ==
    [][/\ (/\ last'.op = "login"
           /\ file.exists
           /\ (last'.pw # user.password \/ ~file.encrypted_master_key_pass.tagok))
          => (/\ last'.res = "Incorrect Password"
              /\ last'.key = NoKey
              /\ file' = file
              /\ session' = session)
       /\ (/\ last'.op = "recover_vault"
           /\ (last'.code # user.recovery_code
                   \/ (file.exists /\ ~file.encrypted_master_key_recovery.tagok)))
          => (/\ last'.res # "Ok"
              /\ last'.key = NoKey
              /\ file' = file
              /\ session' = session)]_vars

\* C3 witness: a login with the wrong password, refused, on a store whose
\* recovery slot was corrupted
C3_Witness ==
    /\ last.op = "login"
    /\ file.exists
    /\ last.pw # user.password
    /\ last.res = "Incorrect Password"
    /\ ~file.encrypted_master_key_recovery.tagok

\* C5 as stated: after a successful change_password the old password fails,
\* the new one returns the Master Key and the unmodified recovery code
\* still returns the same key.
C5_Original ==
    [][(last'.op = "change_user_password" /\ last'.res = "Ok")
          => (/\ unlock_keychain(file', user.password).res # "Ok"
              /\ UnlockReturns(file', last'.pw, user.master_key)
              /\ RecoverReturns(file', user.recovery_code, user.master_key))]_vars

\* C5 amended: the old password fails provided new_password differs from it.
C5_ChangePassword ==
    [][(last'.op = "change_user_password" /\ last'.res = "Ok")
          => (/\ (last'.pw # user.password
                     => unlock_keychain(file', user.password).res = "Incorrect Password")
              /\ UnlockReturns(file', last'.pw, user.master_key)
              /\ RecoverReturns(file', user.recovery_code, user.master_key)
              /\ user'.recovery_code = user.recovery_code)]_vars

\* C5 witness: the password was changed to a different one
C5_Witness ==
    /\ last.op = "change_user_password"
    /\ last.res = "Ok"
    /\ user.password = "pw2"
    /\ unlock_keychain(file, "pw1").res = "Incorrect Password"
    /\ UnlockReturns(file, "pw2", user.master_key)

\* C6: after reset_recovery_code returns new_code, recovery with the old
\* code fails, recovery with new_code succeeds, and the three password-slot
\* fields are unchanged so the current password still unlocks.
C6_ResetRecoveryCode ==
    [][(last'.op = "regenerate_recovery_code" /\ last'.res = "Ok")
          => (/\ RecoverFails(file', user.recovery_code)
              /\ RecoverReturns(file', last'.out, user.master_key)
              /\ file'.password_salt = file.password_salt
              /\ file'.password_nonce = file.password_nonce
              /\ file'.encrypted_master_key_pass = file.encrypted_master_key_pass
              /\ UnlockReturns(file', user.password, user.master_key))]_vars

\* C6 witness: a new code was issued and the one from init no longer opens
C6_Witness ==
    /\ last.op = "regenerate_recovery_code"
    /\ last.res = "Ok"
    /\ last.out = user.recovery_code
    /\ \E c \in Codes \ {last.out} : RecoverFails(file, c)
    /\ RecoverReturns(file, last.out, user.master_key)

\* C7: a successful recover_with_code(code, new_password) rewrites only the
\* password slot: new_password then unlocks, and recovery_salt,
\* recovery_nonce, encrypted_master_key_recovery, vault_id and the KDF
\* parameters are unchanged, so the same code keeps recovering.
C7_RecoverKeepsRecoverySlot ==
    [][(last'.op = "recover_vault" /\ last'.res = "Ok")
          => (/\ UnlockReturns(file', last'.pw, user.master_key)
              /\ last'.key = user.master_key
              /\ file'.recovery_salt = file.recovery_salt
              /\ file'.recovery_nonce = file.recovery_nonce
              /\ file'.encrypted_master_key_recovery = file.encrypted_master_key_recovery
              /\ file'.vault_id = file.vault_id
              /\ file'.kdf_memory = file.kdf_memory
              /\ file'.kdf_iterations = file.kdf_iterations
              /\ file'.kdf_parallelism = file.kdf_parallelism
              /\ RecoverReturns(file', last'.code, user.master_key))]_vars

\* C7 witness: a recovery that set a password other than the one in use
\* before, after which the new password unlocks
C7_Witness ==
    /\ last.op = "recover_vault"
    /\ last.res = "Ok"
    /\ last.code = user.recovery_code
    /\ UnlockReturns(file, last.pw, user.master_key)
    /\ unlock_keychain(file, CHOOSE p \in Passwords : p # last.pw).res = "Incorrect Password"

-----------------------------------------------------------------------------
(* Claims about the codecs *)

RightCreds == dec.master_key = inp.master_key /\ dec.keyfile = inp.keyfile
LegRightCreds == leg.master_key = inp.master_key /\ leg.keyfile = inp.keyfile
DecEnded == dec.pc \in {"done", "err"}

\* The names that were in output_dir before decrypt_file_stream created its file
PreNames == dir.names \ (IF dir.out.created THEN {dir.out.name} ELSE {})

\* C2 as stated: decrypt_file_stream of an encrypt_file_stream container, under
\* the same Master Key and keyfile, returns the filename F and writes the bytes P.
C2_Original ==
    (DecEnded /\ tamper.kind = "none" /\ RightCreds)
        => (/\ dec.pc = "done"
            /\ dec.result = inp.filename
            /\ dir.out.data = inp.data)

\* C2 amended: it writes exactly P, and returns F when output_dir holds no
\* entry named F; otherwise it returns the numbered name "<stem> (n)<.ext>"
\* of the file it created, which no earlier entry of output_dir has.
C2_RoundTrip ==
    /\ (dec.pc # "idle" /\ tamper.kind = "none" /\ RightCreds) => dec.pc # "err"
    /\ (DecEnded /\ tamper.kind = "none" /\ RightCreds)
        => (/\ dec.pc = "done"
            /\ dir.out.data = inp.data
            /\ dec.result = dir.out.name
            /\ dec.result \notin PreNames
            /\ (inp.filename \notin PreNames => dec.result = inp.filename)
            /\ (inp.filename \in PreNames
                   => \E n \in 1..Cardinality(PreNames) :
                          dec.result = NumberedName(inp.filename, n)))

\* C2 witness: a plaintext of three chunks, the last one short, encrypted
\* with a keyfile and decrypted to its own bytes and name
C2_Witness ==
    /\ dec.pc = "done"
    /\ tamper.kind = "none"
    /\ RightCreds
    /\ inp.keyfile = "kf1"
    /\ Len(disk.body) >= 2
    /\ Len(inp.data) % CHUNK_SIZE # 0
    /\ dir.out.data = inp.data
    /\ dec.result = inp.filename

\* C4: with a wrong Master Key or a wrong or missing keyfile both decryptors
\* stop with an error at the validation tag (the legacy one possibly at its
\* keyfile requirement): no File Key or KEM private key is unwrapped, no
\* record or body is read, no output file is created, no plaintext exists.
C4_WrongCredsStopAtTag ==
    /\ (dec.pc # "idle" /\ ~RightCreds)
        => (/\ dec.pc \in {"validate", "err"}
            /\ dec.pc = "err" => dec.result = "Decryption Denied. Check password."
            /\ dec.file_key = <<>>
            /\ dec.off = 0
            /\ dec.chunk_index = 0
            /\ ~dir.out.created)
    /\ (leg.pc \notin {"idle", "sealed"} /\ ~LegRightCreds)
        => (/\ leg.pc \in {"validate", "err"}
            /\ leg.pc = "err"
                  => leg.result \in
                         {"Decryption Denied. Master Key or Keyfile is incorrect.",
                          "This file requires a Keyfile. Please select it."}
            /\ leg.sk = <<>>
            /\ leg.payload = LegIdle.payload)

\* C4 witness: a stream decryption refused for a wrong keyfile
C4_Witness ==
    /\ dec.pc = "err"
    /\ dec.master_key = inp.master_key
    /\ inp.keyfile = "kf1"
    /\ dec.keyfile = "kf2"
    /\ Len(disk.body) > 0
    /\ ~dir.out.created

\* The first position of the record stream that holds a record written
\* under another chunk index, or -1
FirstMisplaced ==
    LET bad == {k \in 0..(Len(disk.body) - 1) : disk.body[k + 1].idx # k}
    IN  IF bad = {} THEN -1 ELSE CHOOSE k \in bad : \A m \in bad : k <= m

\* C8: after two records are swapped, or one is duplicated at another
\* position, decrypt_file_stream never returns success; under the right
\* credentials it fails at the first misplaced record, with that chunk index
\* in the error, having written only the chunks before it.
C8_ReorderDetected ==
    tamper.kind \in {"swap", "duplicate"}
        => (/\ dec.pc # "done"
            /\ (dec.pc = "err" /\ RightCreds)
                  => (/\ dec.result = "Chunk decryption failed"
                      /\ dec.err_chunk = FirstMisplaced
                      /\ dec.chunk_index = FirstMisplaced
                      /\ dir.out.data =
                             SubSeq(inp.data, 1,
                                    Min(Len(inp.data), CHUNK_SIZE * FirstMisplaced))))

\* C8 witness: records 1 and 2 swapped, chunk 0 written, failure at chunk 1
C8_Witness ==
    /\ tamper.kind = "swap"
    /\ RightCreds
    /\ dec.pc = "err"
    /\ dec.err_chunk = 1
    /\ Len(dir.out.data) = CHUNK_SIZE

\* Where record k begins in the record stream, and whether a cut at byte n
\* falls strictly inside a record
RecordStart(body, k) == BodySize(SubSeq(body, 1, k - 1))
InsideRecord(body, n) ==
    \E k \in 1..Len(body) :
        RecordStart(body, k) < n /\ n < RecordStart(body, k) + RecordSize(body[k])

\* C9: a container truncated strictly inside a record (in its length prefix
\* or in its ciphertext) is never decrypted with success.
C9_TruncationInsideRecordFails ==
    (tamper.kind = "truncate" /\ InsideRecord(disk.body, tamper.i) /\ DecEnded)
        => dec.pc = "err"

\* C10: a container whose header original_filename was changed after
\* encryption fails authentication at chunk 0.
C10_RenamedHeaderFails ==
    (tamper.kind = "rename" /\ RightCreds /\ Len(disk.body) > 0 /\ DecEnded)
        => (dec.pc = "err" /\ dec.err_chunk = 0)

-----------------------------------------------------------------------------
(* Claims about the rolling nonce *)

\* The nonce the encryptor made for chunk ix
MadeFor(ix) == CHOOSE n \in {m[2] : m \in {x \in nc.made : x[1] = ix}} : TRUE

\* C11: for every 12-byte base nonce b and chunk index i below 2^64 the chunk
\* nonce, computed alike by the encryptor and the decryptor, has bytes 0..4
\* equal to those of b and bytes 4..12 equal to those of b XOR the
\* little-endian 64-bit encoding of i (XOR-ing bytes 4..12 with b gives back
\* the eight bytes whose little-endian value is i); distinct chunk indices of
\* one container never get the same nonce.
C11_ChunkNonce ==
    /\ \A m \in nc.made :
           LET ix == m[1]
               n == m[2]
               b == nc.base_nonce
           IN  /\ DOMAIN n = 1..AES_NONCE_LEN
               /\ \A j \in 1..AES_NONCE_LEN : n[j] \in 0..255
               /\ \A j \in 1..4 : n[j] = b[j]
               /\ \A l \in 1..4 :
                      Xor8(n[3 + 2 * l], b[3 + 2 * l])
                          + 256 * Xor8(n[4 + 2 * l], b[4 + 2 * l]) = ix[l]
    /\ \A m1, m2 \in nc.made : m1[1] # m2[1] => m1[2] # m2[2]
    /\ nc.pc = "next" => nc.dec = MadeFor(nc.chunk_index)

\* C11 witness: chunks 0, 2^32 and 2^64 - 1 of one container were sealed and
\* opened, under a base nonce with distinct bytes
C11_Witness ==
    /\ nc.pc = "next"
    /\ nc.base_nonce[12] = 188
    /\ {<<0, 0, 0, 0>>, <<0, 0, 1, 0>>, <<65535, 65535, 65535, 65535>>}
           \subseteq {m[1] : m \in nc.made}
    /\ nc.dec[12] = 67
    /\ nc.dec[1] = 37

-----------------------------------------------------------------------------
(* Claims about lock_file *)

\* The File Key (stream) or KEM keypair (legacy) a container's header wraps,
\* and the nonce it is wrapped under
WrappedKey(c) ==
    IF c.version = CURRENT_VERSION THEN c.header.encrypted_file_key.p.v
    ELSE c.header.encrypted_private_key.p
KeyWrappingNonce(c) ==
    IF c.version = CURRENT_VERSION THEN c.header.key_wrapping_nonce
    ELSE c.header.wrapping_nonce
\* The nonce the chunks (stream) or the body (legacy) are sealed under
BodyNonce(c) ==
    IF c.version = CURRENT_VERSION THEN c.header.base_nonce ELSE c.header.hybrid_nonce

\* Files i and j of the batch were sealed under different seeds and nonces
BatchFilesDiffer(i, j) ==
    LET a == batch.results[i]
        b == batch.results[j]
    IN  /\ a.seed # b.seed
        /\ a.container.header.validation_nonce # b.container.header.validation_nonce
        /\ KeyWrappingNonce(a.container) # KeyWrappingNonce(b.container)
        /\ BodyNonce(a.container) # BodyNonce(b.container)
        /\ a.container.version = CURRENT_VERSION => WrappedKey(a.container) # WrappedKey(b.container)

\* C12: in one lock_file batch with caller-supplied extra entropy every file
\* is sealed under a seed of its own, so no two files of the batch get the
\* same seed, File Key, validation nonce, key-wrapping nonce or base nonce.
C12_BatchSeedsDistinct ==
    (batch.pc # "idle" /\ batch.extra_entropy # NoEntropy)
        => \A i, j \in 1..Len(batch.results) : i # j => BatchFilesDiffer(i, j)

\* The lock_file of commands/files.rs alone: the seed of file i is SHA-256 of
\* the entropy and the index i, and the files of a batch differ as above
C12_FilesRsSeedsDistinct ==
    (batch.pc # "idle" /\ batch.fn = "commands/files.rs"
         /\ batch.extra_entropy # NoEntropy)
        => \A i, j \in 1..Len(batch.results) :
               /\ batch.results[i].seed
                      = Sha256(<<batch.extra_entropy, to_le_bytes(U64(i - 1))>>)
               /\ i # j => BatchFilesDiffer(i, j)

\* A batch of three files with extra entropy, locked by commands/files.rs
C12_FilesRsWitness ==
    /\ batch.pc = "done"
    /\ batch.fn = "commands/files.rs"
    /\ batch.extra_entropy = "e2"
    /\ Len(batch.results) = MaxBatch
    /\ batch.results[1].name = batch.results[2].name
    /\ BatchFilesDiffer(1, 2)

-----------------------------------------------------------------------------
(* Claims about vault commands on several threads *)

AllReturned == \A i \in DOMAIN thr.t : thr.t[i].pc = "returned"

\* The store on disk opens under the password last written and under the
\* recovery code last returned to the user
NoLostUpdate ==
    /\ UnlockReturns(file, user.password, user.master_key)
    /\ RecoverReturns(file, user.recovery_code, user.master_key)

\* C13: under any interleaving of change_user_password,
\* regenerate_recovery_code and recover_vault on one store no update is lost:
\* when all have returned, the password slot is the one written by the last
\* password-writing command and the recovery slot opens with the last
\* recovery code returned to the user.
C13_NoLostUpdate ==
    (thr.t # <<>> /\ AllReturned) => NoLostUpdate

\* The two commands that do hold the mutex from before the load until after
\* the save lose no update between them
C13_GuardedNoLostUpdate ==
    (thr.t # <<>> /\ AllReturned /\ \A i \in DOMAIN thr.t : thr.t[i].cmd \in Guarded)
        => NoLostUpdate

\* A password change and a new recovery code, both done, on two threads
C13_GuardedWitness ==
    /\ thr.t # <<>>
    /\ AllReturned
    /\ thr.t[1].cmd = "change_user_password" /\ thr.t[1].res = "Ok"
    /\ thr.t[2].cmd = "regenerate_recovery_code" /\ thr.t[2].res = "Ok"
    /\ user.password = "pw2"
    /\ user.recovery_code # FirstInit.code
    /\ NoLostUpdate

-----------------------------------------------------------------------------
(* Claims about the readers of a container file *)

\* The reader is through with the file, or has its header or container in hand
UnlEnded == unl.pc \in {"done", "loaded", "header_read"}

VersionError ==
    /\ unl.pc = "done"
    /\ ~unl.success
    /\ \/ unl.message = Msg("Unsupported Version: ", unl.file.version, "")
       \/ unl.message = Msg("Unsupported version: ", unl.file.version,
                            ". Please update QRE Locker.")

\* C14 as stated: a container whose version tag is greater than 5 is
\* rejected with a version error by every decrypt entry point, unlock_file,
\* EncryptedFileContainer::load and decrypt_file_stream alike, without an
\* attempt to parse the header or the body.
C14_Original ==
    (UnlEnded /\ ~unl.file.short /\ unl.file.version > 5)
        => (VersionError /\ ~unl.parsed)

\* C14: a container whose version tag is greater than 5 is rejected with a
\* version error by unlock_file and by EncryptedFileContainer::load without
\* an attempt to parse the header or the body; decrypt_file_stream itself
\* reads the tag and drops it, and unlock_file hands it only files whose tag
\* is 5.
C14_VersionGate ==
    /\ (UnlEnded /\ ~unl.file.short /\ unl.file.version > 5
          /\ unl.entry # "decrypt_file_stream")
        => (VersionError /\ ~unl.parsed)
    /\ (unl.pc # "idle" /\ unl.entry = "unlock_file" /\ unl.route = "stream")
        => unl.file.version = 5

\* unlock_file and load have each turned down a tag above 5
C14_Witness ==
    /\ unl.pc = "done"
    /\ unl.entry \in {"unlock_file", "load"}
    /\ unl.file.version = 6
    /\ unl.file.shape = "v3"
    /\ VersionError
    /\ ~unl.parsed

\* C15: a legacy container whose version tag is 2, 3 or 4 is accepted by the
\* reader, which upgrades the header in memory (a version-2 header loads as
\* version 3 with original_hash absent); none of the three is rejected as
\* unsupported on the unlock path.
C15_LegacyAccepted ==
    (/\ UnlEnded
     /\ unl.entry \in {"unlock_file", "commands_rs_unlock_file", "load"}
     /\ ~unl.file.short
     /\ \/ unl.file.version = 2 /\ unl.file.shape = "v2"
        \/ unl.file.version = 3 /\ unl.file.shape = "v3"
        \/ unl.file.version = 4 /\ unl.file.shape = "v4")
        => /\ unl.pc = "loaded"
           /\ unl.container.version = LEGACY_VERSION
           /\ unl.file.version = 2 => unl.container.original_hash = "None"

\* What load alone does with the tags it knows, 2 and 3
C15_LoadUpgrades ==
    (/\ UnlEnded
     /\ unl.entry \in {"commands_rs_unlock_file", "load"}
     /\ ~unl.file.short
     /\ \/ unl.file.version = 2 /\ unl.file.shape = "v2"
        \/ unl.file.version = 3 /\ unl.file.shape = "v3")
        => /\ unl.pc = "loaded"
           /\ unl.container.version = LEGACY_VERSION
           /\ unl.file.version = 2 => unl.container.original_hash = "None"

-----------------------------------------------------------------------------
(* Claims about malformed stores and headers *)

\* C16: for every content of the store file, nonce arrays of another length
\* than 12, a malformed salt, invalid KDF parameters and a slot that opens to
\* other than 32 bytes included, unlock_keychain and recover_with_code
\* return an error value and never panic; and decrypt_file_stream returns an
\* error and never panics on a header whose nonces or unwrapped File Key have
\* the wrong length.
C16_NeverPanics ==
    /\ last.op \in {"login", "recover_vault"} => last.res # "PANIC"
    /\ dec.pc = "err" => dec.result # "PANIC"

\* What does come back as an error value from a malformed store: the salt,
\* the KDF parameters and the length of the opened slot
C16_ErrorsReturned ==
    (/\ last.op \in {"login", "recover_vault"}
     /\ file.exists
     /\ file.password_nonce.len = NONCE_LEN
     /\ file.recovery_nonce.len = NONCE_LEN
     /\ ~WellFormedStore(file))
        => last.res \in {"Invalid salt in keychain", "Invalid KDF parameters",
                         "Keychain is corrupt: invalid master key length",
                         "Incorrect Password", "Invalid Recovery Code", "Ok"}

-----------------------------------------------------------------------------
(* Claims about init_keychain *)

\* C17: init_keychain on a path where a store already exists returns an
\* error and leaves the store as it is, so that the password and recovery
\* code that opened it still do; on a path with no store it writes a store
\* whose two slots both hold the Master Key it returns.
C17_InitKeychain ==
    [][last'.op = "init_vault" =>
         IF file.exists
         THEN /\ last'.res = "Keychain already exists."
              /\ file' = file
              /\ \A pw \in Passwords, mk \in MasterKeys :
                    UnlockReturns(file, pw, mk) => UnlockReturns(file', pw, mk)
              /\ \A code \in Codes, mk \in MasterKeys :
                    RecoverReturns(file, code, mk) => RecoverReturns(file', code, mk)
         ELSE /\ last'.res = "Ok"
              /\ file'.exists
              /\ UnlockReturns(file', last'.pw, last'.key)
              /\ RecoverReturns(file', last'.out, last'.key)]_vars

\* init_keychain has been refused on a store that the user's password and
\* recovery code open
C17_Witness ==
    /\ last.op = "init_vault"
    /\ last.res = "Keychain already exists."
    /\ last.pw # user.password
    /\ file.exists
    /\ UnlockReturns(file, user.password, user.master_key)
    /\ RecoverReturns(file, user.recovery_code, user.master_key)

-----------------------------------------------------------------------------
(* Claims about the errors of the two decryptors *)

\* One side used a keyfile and the other did not
KeyfileMismatch(used, given) == (used = NoKeyfile) # (given = NoKeyfile)

\* The error that says what the caller has to supply
CapabilityErrors == {"This file requires a Keyfile. Please select it."}

\* The errors that say the credentials are wrong
WrongCredentialErrors ==
    {"Decryption Denied. Check password.",
     "Decryption Denied. Master Key or Keyfile is incorrect."}

\* C18: decrypting a container that was encrypted with a keyfile while
\* supplying none, or one encrypted without a keyfile while supplying one,
\* fails with a capability error that is distinct from the wrong-credential
\* error, in the legacy codec and in the streaming codec.
C18_KeyfileMismatch ==
    /\ (DecEnded /\ tamper.kind = "none" /\ dec.master_key = inp.master_key
          /\ KeyfileMismatch(inp.keyfile, dec.keyfile))
        => (/\ dec.pc = "err"
            /\ dec.result \in CapabilityErrors
            /\ dec.result \notin WrongCredentialErrors)
    /\ (leg.pc \in {"done", "err"} /\ tamper.kind = "none"
          /\ leg.master_key = inp.master_key
          /\ KeyfileMismatch(inp.keyfile, leg.keyfile))
        => (/\ leg.pc = "err"
            /\ leg.result \in CapabilityErrors
            /\ leg.result \notin WrongCredentialErrors)

\* The one mismatch that is told apart: a legacy container that used a
\* keyfile, decrypted with none
C18_LegacyRequiresKeyfile ==
    (leg.pc \in {"done", "err"} /\ tamper.kind = "none"
       /\ inp.keyfile # NoKeyfile /\ leg.keyfile = NoKeyfile)
        => (leg.pc = "err" /\ leg.result \in CapabilityErrors)

\* decrypt_file_stream stopped at the validation tag or at the File Key
StreamCredentialFailure ==
    /\ dec.pc = "err"
    /\ dec.result # "PANIC"
    /\ dec.file_key = <<>>
    /\ ~dir.out.created

\* decrypt_file_with_master_key stopped at the validation tag or at the KEM
\* private key
LegacyCredentialFailure ==
    /\ leg.pc = "err"
    /\ leg.result \notin {"PANIC"} \cup CapabilityErrors
    /\ leg.sk = <<>>

\* C19: in decrypt_file_stream and decrypt_file_with_master_key every
\* credential failure (the validation tag failing to authenticate, its
\* plaintext not matching, the File Key or KEM private key failing to
\* unwrap) is reported with one and the same error, the one a wrong key
\* gets, so that the caller cannot tell which check failed.
C19_UniformCredentialError ==
    /\ StreamCredentialFailure => dec.result = "Decryption Denied. Check password."
    /\ LegacyCredentialFailure
        => leg.result = "Decryption Denied. Master Key or Keyfile is incorrect."

\* C20: for every Master Key, optional keyfile, filename F, plaintext P and
\* compression level, decrypt_file_with_master_key on the container that
\* encrypt_file_with_master_key returned, with the same Master Key and
\* keyfile, returns a payload whose filename is F and whose content is P,
\* and the stored original_hash is SHA-256(P), so the integrity check passes.
C20_LegacyRoundTrip ==
    /\ (leg.pc # "idle" /\ tamper.kind = "none")
        => leg.container.header.original_hash = Sha256(inp.data)
    /\ (leg.pc \notin {"idle", "sealed"} /\ tamper.kind = "none" /\ LegRightCreds)
        => leg.pc # "err"
    /\ (leg.pc = "done" /\ tamper.kind = "none" /\ LegRightCreds)
        => (/\ leg.result = "Ok"
            /\ leg.payload.filename = inp.filename
            /\ leg.payload.content = inp.data)

\* A plaintext of both byte values, sealed with a keyfile at the high level
\* and opened to its own name and bytes
C20_Witness ==
    /\ leg.pc = "done"
    /\ LegRightCreds
    /\ inp.keyfile = "kf1"
    /\ inp.level = 19
    /\ Len(inp.data) = MaxLen
    /\ inp.data[1] # inp.data[MaxLen]
    /\ leg.payload = [filename |-> inp.filename, content |-> inp.data]
    /\ leg.container.header.original_hash = Sha256(inp.data)

-----------------------------------------------------------------------------
(* Claims about the record stream *)

TooLarge == "Chunk size too large (corrupt file?)"

-----------------------------------------------------------------------------
(* Claims about the output file *)

\* The numbered names of a path's file name that get_unique_path tries
Numbered(call, n) == Append(Parent(call.raw), NumberedName(file_name(call.raw), n))

\* C22: get_unique_path(p) returns p itself when p does not exist, and
\* otherwise "<stem> (n)<.ext>" in the same directory for the smallest
\* n >= 1 for which no such file exists; the path it returns never names a
\* file that exists, so decrypt_file_stream never overwrites a file that was
\* in the destination directory.
C22_UniquePath ==
    \A i \in DOMAIN od.t :
        LET call == od.t[i]
        IN  /\ call.pc # "start"
                => /\ Resolve(call.final) \notin call.seen
                   /\ Resolve(call.raw) \notin call.seen => call.final = call.raw
                   /\ Resolve(call.raw) \in call.seen
                         => \E n \in 1..(Cardinality(call.seen) + 1) :
                               /\ call.final = Numbered(call, n)
                               /\ \A m \in 1..(n - 1) :
                                     Resolve(Numbered(call, m)) \in call.seen
            /\ \A f \in od.files : 0 \in f.by => (f.by = {0} /\ f.data = <<0>>)

\* A call whose name and first numbered name were taken got the second
\* numbered name, and the two old files are as they were
C22_Witness ==
    /\ od.t # <<>>
    /\ od.t[1].pc = "done"
    /\ od.t[1].original_filename.comps = <<(<<"b">>)>>
    /\ od.t[1].final_filename = <<"b", " ", "(", "2", ")">>
    /\ OldFile(OutputDir \o <<(<<"b">>)>>) \in od.files
    /\ OldFile(OutputDir \o <<(<<"b", " ", "(", "1", ")">>)>>) \in od.files

\* C29: for every container that decrypt_file_stream accepts, the output
\* file it creates is a direct child of output_dir, whatever
\* original_filename the header carries (names with ".." components, with
\* path separators, or absolute).
C29_OutputInsideDir ==
    \A i \in DOMAIN od.t :
        od.t[i].pc \in {"created", "done"}
            => Parent(Resolve(od.t[i].final)) = OutputDir

\* What does hold: a relative header name of one component is created in
\* output_dir
C29_PlainNameInsideDir ==
    \A i \in DOMAIN od.t :
        (/\ od.t[i].pc \in {"created", "done"}
         /\ ~od.t[i].original_filename.abs
         /\ Len(od.t[i].original_filename.comps) = 1)
            => Parent(Resolve(od.t[i].final)) = OutputDir

\* C30: two decrypt_file_stream calls that run concurrently into one output
\* directory on containers with the same original_filename never create or
\* write the same output path: each gets its own de-duplicated file, and no
\* output that was created is emptied or written over.
C30_NoSharedOutput ==
    /\ \A f \in od.files : Cardinality(f.by \ {0}) <= 1
    /\ \A i, j \in DOMAIN od.t :
          (i # j /\ od.t[i].pc \in {"created", "done"} /\ od.t[j].pc \in {"created", "done"})
              => Resolve(od.t[i].final) # Resolve(od.t[j].final)

\* What does hold: a call that starts after the other has created its file
\* gets a file of its own
C30_AfterCreateDistinct ==
    \A i, j \in DOMAIN od.t :
        (/\ i # j
         /\ od.t[i].pc \in {"created", "done"}
         /\ od.t[j].pc \in {"created", "done"}
         /\ Resolve(od.t[i].final) \in od.t[j].seen)
            => Resolve(od.t[i].final) # Resolve(od.t[j].final)

-----------------------------------------------------------------------------
(* Claims about the recovery code *)

CharAt(str, i) == SubSeq(str, i, i)

\* "QRE-" and four groups of four uppercase hexadecimal digits, with '-'
\* between the groups
MatchesPattern(code) ==
    /\ Len(code) >= 23
    /\ SubSeq(code, 1, 4) = "QRE-"
    /\ \A i \in 5..23 :
          IF i \in {9, 14, 19} THEN CharAt(code, i) = "-"
          ELSE \E d \in 1..16 : CharAt(code, i) = HexDigits[d]

CodeReturned == last.op \in {"init_vault", "regenerate_recovery_code"} /\ last.res = "Ok"

\* C23 as stated: the recovery code returned by init_keychain and by
\* reset_recovery_code is a 27-character string matching
\* QRE-XXXX-XXXX-XXXX-XXXX.
C23_Original ==
    CodeReturned => (Len(last.out) = 27 /\ MatchesPattern(last.out))

\* C23: the recovery code returned by init_keychain and by
\* reset_recovery_code matches QRE-XXXX-XXXX-XXXX-XXXX, the prefix "QRE-" and
\* four groups of exactly four uppercase hexadecimal digits separated by
\* '-': a string of 23 characters.
C23_RecoveryCodeFormat ==
    CodeReturned => (Len(last.out) = 23 /\ MatchesPattern(last.out))

\* A new code with a group of letters and a group padded with zeros
C23_Witness ==
    /\ last.op = "regenerate_recovery_code"
    /\ last.res = "Ok"
    /\ last.out = "QRE-FFFF-1234-ABCD-000A"
    /\ user.recovery_code = last.out

-----------------------------------------------------------------------------
(* Claims about what the two streaming functions have written so far *)

\* The first k chunks of the plaintext
FirstChunks(k) == SubSeq(inp.data, 1, Min(k * CHUNK_SIZE, Len(inp.data)))

\* The record that encrypt_file_stream writes for chunk k (counted from 0)
Complete(rec, k) ==
    /\ rec.idx = k
    /\ rec.len = Len(rec.ct.p) + TAG_LEN
    /\ rec.ct.tagok
    /\ decompress_chunk(rec.ct.p).data = SubSeq(FirstChunks(k + 1), k * CHUNK_SIZE + 1, Len(FirstChunks(k + 1)))

\* C24: at every point of decrypt_file_stream, also when it stops between
\* chunks or gives up on a failing chunk k, the bytes written to the output
\* are the decompressed plaintexts of records 0..k-1 in index order, a
\* prefix of the original plaintext; and at every point of
\* encrypt_file_stream the output is the version tag and the header followed
\* by the complete records 0..k-1 in index order, no chunk index missing or
\* repeated.
C24_WrittenSoFar ==
    /\ dir.out.created
        => /\ dir.out.data = FirstChunks(dec.chunk_index)
           /\ dec.chunk_index <= Len(disk.body)
    /\ (dec.pc # "idle" /\ ~dir.out.created) => dir.out.data = <<>>
    /\ (enc.pc \in {"loop", "done"} /\ tamper.kind = "none")
        => /\ disk.exists
           /\ disk.version = CURRENT_VERSION
           /\ disk.header.original_filename = inp.filename
           /\ Len(disk.body) = enc.chunk_index
           /\ \A k \in 1..Len(disk.body) : Complete(disk.body[k], k - 1)
           /\ disk.size = BodySize(disk.body)
           /\ enc.processed_bytes = Len(FirstChunks(enc.chunk_index))

\* A decryption that gave up at the second record of a container whose
\* records were swapped, with the first chunk, and nothing else, written
C24_Witness ==
    /\ tamper.kind = "swap"
    /\ dec.pc = "err"
    /\ dec.chunk_index = 1
    /\ Len(disk.body) = 3
    /\ dir.out.created
    /\ dir.out.data = SubSeq(inp.data, 1, CHUNK_SIZE)
    /\ inp.data[1] # inp.data[Len(inp.data)]

-----------------------------------------------------------------------------
(* Claims about init_vault on several threads *)

Succeeded(i) == thr.t[i].pc = "returned" /\ thr.t[i].res = "Ok"

\* C25: under any interleaving of two concurrent init_keychain (init_vault)
\* calls on one path at most one returns success, and the recovery code and
\* Master Key that a successful init returned open the store that is left on
\* disk.
C25_OneInitWins ==
    /\ Cardinality({i \in DOMAIN thr.t : thr.t[i].cmd = "init_vault" /\ Succeeded(i)}) <= 1
    /\ \A i \in DOMAIN thr.t :
          (thr.t[i].cmd = "init_vault" /\ AllReturned /\ Succeeded(i))
              => /\ UnlockReturns(file, thr.t[i].new_password, thr.t[i].key)
                 /\ RecoverReturns(file, thr.t[i].out, thr.t[i].key)

\* What does hold: once a store is at the path, every init that looks is
\* refused and the store stays
C25_ExistingStoreRefuses ==
    \A i \in DOMAIN thr.t :
        (thr.t[i].cmd = "init_vault" /\ thr.t[i].pc = "returned"
           /\ thr.t[i].res = "Keychain already exists.")
            => file.exists

-----------------------------------------------------------------------------
(* Claims about the session state *)

\* C26: with the commands init_vault, login, logout, recover_vault,
\* change_user_password and regenerate_recovery_code run one at a time,
\* whenever the session holds Some(master_key) that key is the Master Key
\* both slots of the store decrypt to; a failed login or recover_vault leaves
\* the session as it was, and logout leaves it None.
C26_SessionKey ==
    /\ [](session # NoKey =>
            /\ file.exists
            /\ PasswordSlot(file, user.password) = [ok |-> TRUE, p |-> KeyBytes(session)]
            /\ RecoverySlot(file, user.recovery_code) = [ok |-> TRUE, p |-> KeyBytes(session)])
    /\ [][/\ (last'.op \in {"login", "recover_vault"} /\ last'.res # "Ok")
               => session' = session
          /\ last'.op = "logout" => session' = NoKey]_vars

\* A login with a wrong password failed while the session held the key
C26_Witness ==
    /\ session # NoKey
    /\ last.op = "login"
    /\ last.res # "Ok"
    /\ RecoverySlot(file, user.recovery_code) = [ok |-> TRUE, p |-> KeyBytes(session)]

-----------------------------------------------------------------------------
(* Claims about seeded encryption *)

\* Container c holds exactly what the generator seeded with s gives: the
\* File Key, the three nonces of the header, and the nonce of every chunk
SeededOutput(c, s) ==
    LET g == ChaCha20Rng(s)
    IN  /\ c.version = CURRENT_VERSION
        /\ c.header.validation_nonce = g.validation_nonce
        /\ c.header.key_wrapping_nonce = g.key_wrapping_nonce
        /\ c.header.base_nonce = g.base_nonce
        /\ c.header.encrypted_file_key.p.v = g.file_key
        /\ \A k \in 1..Len(c.body) :
              /\ c.body[k].ct.k = g.file_key
              /\ c.body[k].ct.n = ChunkNonce(g.base_nonce, U64(k - 1))

-----------------------------------------------------------------------------
(* Claims about a container cut at a record boundary *)

\* The cut at byte n of the record stream removes whole trailing records
AtRecordBoundary(body, n) ==
    \E k \in 1..Len(body) : n = RecordStart(body, k)

\* C28: decrypt_file_stream returns success only when it has written the
\* complete plaintext that was encrypted: a container from which one or more
\* whole trailing chunk records were removed is not decrypted with success.
C28_BoundaryCutRejected ==
    /\ (tamper.kind = "truncate" /\ AtRecordBoundary(disk.body, tamper.i) /\ DecEnded)
           => dec.pc = "err"
    /\ (tamper.kind \in {"none", "truncate"} /\ dec.pc = "done")
           => dir.out.data = inp.data

\* What does hold: a truncated container decrypted with success has given
\* the plaintext of its first whole records, in order
C28_CutYieldsPrefix ==
    (tamper.kind = "truncate" /\ dec.pc = "done")
        => \E k \in 0..Len(disk.body) :
              dir.out.data = SubSeq(inp.data, 1, Min(Len(inp.data), CHUNK_SIZE * k))

====
